---- MODULE Spec2Model ----
(***************************************************************************)
(* A model of the SMS recruiting bot: the inbound webhook, the inbound     *)
(* poller, the outbound senders and the admin chat simulator of            *)
(* src/app/main.py, src/app/routers/chat.py and src/app/routers/admin.py,  *)
(* with the reply generator and the outcome summarizer of                  *)
(* "src/app/services/llm copy.py" (the version of app/services/llm.py      *)
(* whose names main.py imports).                                           *)
(*                                                                         *)
(* Texts.  A text is a sequence of sentences, split where the source       *)
(* splits them (after . ! ? followed by whitespace).  A sentence is named  *)
(* by its ASCII transliteration; the lexicon gives, for each sentence, its *)
(* number of characters, its number of question marks, the number of       *)
(* trailing characters that strip(",. ") removes, and the needles and      *)
(* regular expressions of the source that match it, separately for the     *)
(* text as written ("raw"), for its lower() ("low") and for its _norm()    *)
(* ("norm").  The lexicon values were computed with the source's own       *)
(* strings and compiled regular expressions.                               *)
(***************************************************************************)
EXTENDS Integers, Sequences, FiniteSets, TLC

\* ---- sentence lexicon: begin ----
Lexicon ==
  ("!prompt" :>
     [chars |-> 7, q |-> 0, dots |-> 0,
      f |-> {<<"low", "debug command">>, <<"raw", "[A-Za-z]{3,}">>}]) @@
  ("5 metai" :>
     [chars |-> 7, q |-> 0, dots |-> 0,
      f |-> {<<"raw", "[A-Za-z]{3,}">>}]) @@
  ("<a filler sentence of 202 characters>" :>
     [chars |-> 202, q |-> 0, dots |-> 0,
      f |-> {<<"raw", "[A-Za-z]{3,}">>, <<"raw", "lt letter">>}]) @@
  ("<chat.py:381 Atsiprasau, ivyko klaida.>" :>
     [chars |-> 27, q |-> 0, dots |-> 1,
      f |-> {<<"raw", "[A-Za-z]{3,}">>}]) @@
  ("<chat.py:381 Bandykite dar karta.>" :>
     [chars |-> 21, q |-> 0, dots |-> 1,
      f |-> {<<"raw", "[A-Za-z]{3,}">>}]) @@
  ("Aciu uz Jusu laika - uzsirasiau." :>
     [chars |-> 32, q |-> 0, dots |-> 1,
      f |-> {<<"norm", "HUMAN_CLOSE.head">>, <<"norm", "rx aciu uz laika">>,
            <<"norm", "uzsirasi">>, <<"raw", "[A-Za-z]{3,}">>, <<"raw", "lt letter">>}]) @@
  ("Aciu uz klausima - atlygio klausima patogiausia suderinti telefonu." :>
     [chars |-> 67, q |-> 0, dots |-> 1,
      f |-> {<<"raw", "SAL_KWS">>, <<"raw", "[A-Za-z]{3,}">>, <<"raw", "lt letter">>}]) @@
  ("Aciu uz klausima - del atlygio patogiausia suderinti telefonu, kolega paskambins." :>
     [chars |-> 81, q |-> 0, dots |-> 1,
      f |-> {<<"cnorm", "paskambins">>, <<"cnorm", "rx paskambins">>, <<"norm", "paskambins">>,
            <<"norm", "rx paskambins">>, <<"raw", "SAL_KWS">>,
            <<"raw", "[A-Za-z]{3,}">>, <<"raw", "lt letter">>}]) @@
  ("Aciu." :>
     [chars |-> 5, q |-> 0, dots |-> 1,
      f |-> {<<"raw", "lt letter">>}]) @@
  ("Ar aktualu dabar, ar palikti ateiciai?" :>
     [chars |-> 38, q |-> 1, dots |-> 0,
      f |-> {<<"norm", "ar aktualu">>, <<"norm", "ateiciai">>, <<"raw", "[A-Za-z]{3,}">>,
            <<"raw", "_BAD_LINES">>, <<"raw", "lt letter">>}]) @@
  ("Ar ateityje noretumete bendradarbiauti su Valandinis.lt?" :>
     [chars |-> 56, q |-> 1, dots |-> 0,
      f |-> {<<"low", "ar ateityje noretumete bendradarbiauti">>, <<"low", "valandinis.lt">>,
            <<"norm", "ar ateityje noretumete bendradarbiauti">>,
            <<"raw", "[A-Za-z]{3,}">>, <<"raw", "lt letter">>}]) @@
  ("Ar dirbate siuo metu?" :>
     [chars |-> 21, q |-> 1, dots |-> 0,
      f |-> {<<"raw", "[A-Za-z]{3,}">>, <<"raw", "lt letter">>}]) @@
  ("Ar domina?" :>
     [chars |-> 10, q |-> 1, dots |-> 0,
      f |-> {<<"raw", "[A-Za-z]{3,}">>}]) @@
  ("Ar sis pasiulymas jums aktualus?" :>
     [chars |-> 32, q |-> 1, dots |-> 0,
      f |-> {<<"norm", "ar sis pasiulymas jums aktualus">>, <<"raw", "[A-Za-z]{3,}">>,
            <<"raw", "lt letter">>}]) @@
  ("Ar siuo metu dirbate ar atviri naujam objektui?" :>
     [chars |-> 47, q |-> 1, dots |-> 0,
      f |-> {<<"raw", "[A-Za-z]{3,}">>, <<"raw", "lt letter">>}]) @@
  ("Atlyginimas priklauso nuo objekto." :>
     [chars |-> 34, q |-> 0, dots |-> 1,
      f |-> {<<"raw", "SAL_KWS">>, <<"raw", "[A-Za-z]{3,}">>}]) @@
  ("Atsakykite trumpai lietuviskai ir tesime." :>
     [chars |-> 41, q |-> 0, dots |-> 1,
      f |-> {<<"raw", "[A-Za-z]{3,}">>, <<"raw", "lt letter">>}]) @@
  ("Atsiprasome uz trukdyma - patikslinsime kontaktus." :>
     [chars |-> 50, q |-> 0, dots |-> 1,
      f |-> {<<"raw", "[A-Za-z]{3,}">>, <<"raw", "lt letter">>}]) @@
  ("Cia Valandinis.lt - matome, kad Vilniuje turime objekta, kuriame reikalingas elektrikas." :>
     [chars |-> 88, q |-> 0, dots |-> 1,
      f |-> {<<"low", "valandinis.lt">>, <<"raw", "[A-Za-z]{3,}">>, <<"raw", "lt letter">>}]) @@
  ("Cia Valandinis.lt." :>
     [chars |-> 18, q |-> 0, dots |-> 1,
      f |-> {<<"low", "valandinis.lt">>, <<"raw", "[A-Za-z]{3,}">>, <<"raw", "lt letter">>}]) @@
  ("Daugiau nerasysime." :>
     [chars |-> 19, q |-> 0, dots |-> 1,
      f |-> {<<"norm", "daugiau nerasysime">>, <<"raw", "[A-Za-z]{3,}">>, <<"raw", "lt letter">>}]) @@
  ("Esu Valandinis.lt atstovas." :>
     [chars |-> 27, q |-> 0, dots |-> 1,
      f |-> {<<"low", "valandinis.lt">>, <<"raw", "[A-Za-z]{3,}">>}]) @@
  ("Grazios dienos!" :>
     [chars |-> 15, q |-> 0, dots |-> 0,
      f |-> {<<"norm", "DNC_CLOSE.tail">>, <<"raw", "[A-Za-z]{3,}">>, <<"raw", "lt letter">>}]) @@
  ("Jei rimtai domins darbas, parasykite." :>
     [chars |-> 37, q |-> 0, dots |-> 1,
      f |-> {<<"norm", "TROLL_CLOSE.tail">>, <<"raw", "[A-Za-z]{3,}">>, <<"raw", "lt letter">>}]) @@
  ("Kada galetumete pradeti?" :>
     [chars |-> 24, q |-> 1, dots |-> 0,
      f |-> {<<"low", "kada galetumete pradeti">>, <<"raw", "[A-Za-z]{3,}">>, <<"raw", "lt letter">>}]) @@
  ("Kiek metu patirties turite kaip elektrikas?" :>
     [chars |-> 43, q |-> 1, dots |-> 0,
      f |-> {<<"low", "kiek metu patirties">>, <<"norm", "kiek metu patirties">>,
            <<"raw", "[A-Za-z]{3,}">>, <<"raw", "lt letter">>}]) @@
  ("Kiek metu patirties turite kaip meistras?" :>
     [chars |-> 41, q |-> 1, dots |-> 0,
      f |-> {<<"low", "kiek metu patirties">>, <<"norm", "kiek metu patirties">>,
            <<"raw", "[A-Za-z]{3,}">>, <<"raw", "lt letter">>}]) @@
  ("Nuo kada galetumete  pradeti?" :>
     [chars |-> 29, q |-> 1, dots |-> 0,
      f |-> {<<"norm", "nuo kada galetumete pradeti">>, <<"raw", "[A-Za-z]{3,}">>,
            <<"raw", "lt letter">>}]) @@
  ("Nuo kada galetumete pradeti arba koks grafikas tinka?" :>
     [chars |-> 53, q |-> 1, dots |-> 0,
      f |-> {<<"low", "kada galetumete pradeti">>, <<"low", "koks grafikas tinka">>,
            <<"low", "nuo kada galetumete pradeti">>,
            <<"norm", "koks grafikas tinka">>,
            <<"norm", "nuo kada galetumete pradeti">>, <<"raw", "[A-Za-z]{3,}">>,
            <<"raw", "lt letter">>}]) @@
  ("Nuo kada galetumete pradeti?" :>
     [chars |-> 28, q |-> 1, dots |-> 0,
      f |-> {<<"low", "kada galetumete pradeti">>, <<"low", "nuo kada galetumete pradeti">>,
            <<"norm", "nuo kada galetumete pradeti">>, <<"raw", "[A-Za-z]{3,}">>,
            <<"raw", "lt letter">>}]) @@
  ("PROMPT_SHA <a model name of 190 characters>" :>
     [chars |-> 203, q |-> 0, dots |-> 0,
      f |-> {<<"raw", "[A-Za-z]{3,}">>}]) @@
  ("PROMPT_SHA MODEL" :>
     [chars |-> 24, q |-> 0, dots |-> 0,
      f |-> {<<"raw", "[A-Za-z]{3,}">>}]) @@
  ("Palikime cia." :>
     [chars |-> 13, q |-> 0, dots |-> 1,
      f |-> {<<"norm", "CLOSE_PATTERNS.4">>, <<"norm", "TROLL_CLOSE.head">>,
            <<"norm", "palikime cia">>, <<"raw", "[A-Za-z]{3,}">>,
            <<"raw", "lt letter">>}]) @@
  ("Perduosiu kolegai - paskambins del detaliu." :>
     [chars |-> 43, q |-> 0, dots |-> 1,
      f |-> {<<"cnorm", "CLOSE_PATTERNS.0">>, <<"cnorm", "paskambins">>,
            <<"cnorm", "perduosiu koleg">>, <<"cnorm", "rx paskambins">>,
            <<"cnorm", "rx perduosiu koleg">>, <<"norm", "CLOSE_PATTERNS.0">>,
            <<"norm", "CLOSE_TX">>, <<"norm", "HUMAN_CLOSE.tail">>,
            <<"norm", "paskambins">>, <<"norm", "perduosiu koleg">>,
            <<"norm", "rx paskambins">>, <<"norm", "rx perduosiu koleg">>,
            <<"raw", "[A-Za-z]{3,}">>, <<"raw", "lt letter">>}]) @@
  ("Puiku - perduosiu kolegai, jis jums paskambins." :>
     [chars |-> 47, q |-> 0, dots |-> 1,
      f |-> {<<"cnorm", "CLOSE_PATTERNS.0">>, <<"cnorm", "paskambins">>,
            <<"cnorm", "perduosiu koleg">>, <<"cnorm", "rx paskambins">>,
            <<"cnorm", "rx perduosiu koleg">>, <<"norm", "CLOSE_PATTERNS.0">>,
            <<"norm", "paskambins">>, <<"norm", "perduosiu koleg">>,
            <<"norm", "rx paskambins">>, <<"norm", "rx perduosiu koleg">>,
            <<"raw", "[A-Za-z]{3,}">>}]) @@
  ("Puiku - uzsirasysiu ateiciai." :>
     [chars |-> 29, q |-> 0, dots |-> 1,
      f |-> {<<"norm", "FUTURE_CLOSE.head">>, <<"norm", "ateiciai">>, <<"raw", "[A-Za-z]{3,}">>,
            <<"raw", "lt letter">>}]) @@
  ("Rasau is Valandinis.lt atstovas." :>
     [chars |-> 32, q |-> 0, dots |-> 1,
      f |-> {<<"low", "valandinis.lt">>, <<"raw", "[A-Za-z]{3,}">>, <<"raw", "lt letter">>}]) @@
  ("Rasau is Valandinis.lt." :>
     [chars |-> 23, q |-> 0, dots |-> 1,
      f |-> {<<"low", "valandinis.lt">>, <<"raw", "[A-Za-z]{3,}">>, <<"raw", "lt letter">>}]) @@
  ("Reikalingas patyres elektrikas." :>
     [chars |-> 31, q |-> 0, dots |-> 1,
      f |-> {<<"raw", "[A-Za-z]{3,}">>, <<"raw", "lt letter">>}]) @@
  ("Reikalingas patyres specialistas." :>
     [chars |-> 33, q |-> 0, dots |-> 1,
      f |-> {<<"low", "specialist">>, <<"raw", "[A-Za-z]{3,}">>, <<"raw", "lt letter">>}]) @@
  ("Reikalingas patyres statybu srityje." :>
     [chars |-> 36, q |-> 0, dots |-> 1,
      f |-> {<<"raw", "[A-Za-z]{3,}">>, <<"raw", "lt letter">>}]) @@
  ("Siulome lankscius grafikus, greita pradzia ir paprasta procesa isidarbinant." :>
     [chars |-> 76, q |-> 0, dots |-> 1,
      f |-> {<<"low", "VALUE_LINE">>, <<"norm", "FUTURE_CLOSE.tail">>, <<"raw", "[A-Za-z]{3,}">>,
            <<"raw", "lt letter">>}]) @@
  ("Supratau - daugiau nerasysime." :>
     [chars |-> 30, q |-> 0, dots |-> 1,
      f |-> {<<"norm", "CLOSE_PATTERNS.2">>, <<"norm", "DNC_CLOSE.head">>,
            <<"norm", "daugiau nerasysime">>, <<"raw", "[A-Za-z]{3,}">>,
            <<"raw", "lt letter">>}]) @@
  ("Supratau - daugiau netrukdysime." :>
     [chars |-> 32, q |-> 0, dots |-> 1,
      f |-> {<<"raw", "[A-Za-z]{3,}">>}]) @@
  ("Supratau, aciu." :>
     [chars |-> 15, q |-> 0, dots |-> 1,
      f |-> {<<"raw", "[A-Za-z]{3,}">>, <<"raw", "lt letter">>}]) @@
  ("Supratau." :>
     [chars |-> 9, q |-> 0, dots |-> 1,
      f |-> {<<"raw", "[A-Za-z]{3,}">>}]) @@
  ("Sveiki!" :>
     [chars |-> 7, q |-> 0, dots |-> 0,
      f |-> {<<"raw", "[A-Za-z]{3,}">>}]) @@
  ("Sveiki! dekojame uz atsakyma." :>
     [chars |-> 29, q |-> 0, dots |-> 1,
      f |-> {<<"raw", "[A-Za-z]{3,}">>, <<"raw", "lt letter">>}]) @@
  ("Sveiki, Sveiki, dekojame uz atsakyma." :>
     [chars |-> 37, q |-> 0, dots |-> 1,
      f |-> {<<"raw", "[A-Za-z]{3,}">>, <<"raw", "lt letter">>}]) @@
  ("Sveiki, dekojame uz atsakyma." :>
     [chars |-> 29, q |-> 0, dots |-> 1,
      f |-> {<<"raw", "[A-Za-z]{3,}">>, <<"raw", "lt letter">>}]) @@
  ("Sveiki, turime darbo pasiulyma Vilniuje." :>
     [chars |-> 40, q |-> 0, dots |-> 1,
      f |-> {<<"raw", "[A-Za-z]{3,}">>, <<"raw", "lt letter">>}]) @@
  ("Tai darbas elektrikas pozicijoje Klaipedoje; detales suderinsime telefonu." :>
     [chars |-> 74, q |-> 0, dots |-> 1,
      f |-> {<<"raw", "[A-Za-z]{3,}">>, <<"raw", "lt letter">>}]) @@
  ("Tai darbas elektrikas pozicijoje; konkrecias salygas suderinsime telefonu." :>
     [chars |-> 74, q |-> 0, dots |-> 1,
      f |-> {<<"raw", "[A-Za-z]{3,}">>, <<"raw", "lt letter">>}]) @@
  ("Tai darbas elektriko pozicijoje Klaipedoje; detales suderinsime telefonu." :>
     [chars |-> 73, q |-> 0, dots |-> 1,
      f |-> {<<"raw", "[A-Za-z]{3,}">>, <<"raw", "lt letter">>}]) @@
  ("Tai darbas elektriko pozicijoje; konkrecias salygas suderinsime telefonu." :>
     [chars |-> 73, q |-> 0, dots |-> 1,
      f |-> {<<"raw", "[A-Za-z]{3,}">>, <<"raw", "lt letter">>}]) @@
  ("Thanks, noted." :>
     [chars |-> 14, q |-> 0, dots |-> 1,
      f |-> {<<"raw", "[A-Za-z]{3,}">>}]) @@
  ("aciu" :>
     [chars |-> 4, q |-> 0, dots |-> 0,
      f |-> {<<"low", "POSTCLOSE_ACK_RE">>, <<"raw", "lt letter">>}]) @@
  ("ar jus bot" :>
     [chars |-> 10, q |-> 0, dots |-> 0,
      f |-> {<<"raw", "[A-Za-z]{3,}">>, <<"raw", "robot">>}]) @@
  ("as santechnikas" :>
     [chars |-> 15, q |-> 0, dots |-> 0,
      f |-> {<<"raw", "[A-Za-z]{3,}">>, <<"raw", "lt letter">>}]) @@
  ("atstovas." :>
     [chars |-> 9, q |-> 0, dots |-> 1,
      f |-> {<<"raw", "[A-Za-z]{3,}">>}]) @@
  ("eik nx" :>
     [chars |-> 6, q |-> 0, dots |-> 0,
      f |-> {<<"raw", "CLOSE_RULES.troll">>, <<"raw", "[A-Za-z]{3,}">>}]) @@
  ("gal ateityje" :>
     [chars |-> 12, q |-> 0, dots |-> 0,
      f |-> {<<"low", "_is_maybe_future">>, <<"low", "_user_future_yes">>,
            <<"raw", "CLOSE_RULES.future">>, <<"raw", "[A-Za-z]{3,}">>,
            <<"raw", "_AFFIRM_RX">>}]) @@
  ("gerai, o koks atlyginimas?" :>
     [chars |-> 26, q |-> 1, dots |-> 0,
      f |-> {<<"low", "_is_yes">>, <<"raw", "CLOSE_RULES.accept">>, <<"raw", "LT_Q_WORDS">>,
            <<"raw", "SAL_KWS">>, <<"raw", "[A-Za-z]{3,}">>, <<"raw", "_AFFIRM_RX">>,
            <<"raw", "endswith ?">>}]) @@
  ("kas per darbas?" :>
     [chars |-> 15, q |-> 1, dots |-> 0,
      f |-> {<<"raw", "LT_Q_WORDS">>, <<"raw", "[A-Za-z]{3,}">>, <<"raw", "endswith ?">>}]) @@
  ("koks atlyginimas?" :>
     [chars |-> 17, q |-> 1, dots |-> 0,
      f |-> {<<"low", "_is_yes">>, <<"raw", "LT_Q_WORDS">>, <<"raw", "SAL_KWS">>,
            <<"raw", "[A-Za-z]{3,}">>, <<"raw", "endswith ?">>}]) @@
  ("labas" :>
     [chars |-> 5, q |-> 0, dots |-> 0,
      f |-> {<<"raw", "[A-Za-z]{3,}">>}]) @@
  ("man 25 metu" :>
     [chars |-> 11, q |-> 0, dots |-> 0,
      f |-> {<<"raw", "AGE_VAL_PAT">>, <<"raw", "[A-Za-z]{3,}">>, <<"raw", "lt letter">>}]) @@
  ("ne" :>
     [chars |-> 2, q |-> 0, dots |-> 0,
      f |-> {<<"low", "_is_no">>, <<"raw", "_DECLINE_RX">>}]) @@
  ("ne tas numeris" :>
     [chars |-> 14, q |-> 0, dots |-> 0,
      f |-> {<<"raw", "CLOSE_RULES.wrong">>, <<"raw", "[A-Za-z]{3,}">>, <<"raw", "_DECLINE_RX">>}]) @@
  ("ne, dabar neaktualu" :>
     [chars |-> 19, q |-> 0, dots |-> 0,
      f |-> {<<"raw", "[A-Za-z]{3,}">>, <<"raw", "_DECLINE_RX">>}]) @@
  ("nedomina" :>
     [chars |-> 8, q |-> 0, dots |-> 0,
      f |-> {<<"low", "_is_no">>, <<"raw", "[A-Za-z]{3,}">>, <<"raw", "_DECLINE_RX">>}]) @@
  ("nuo pirmadienio" :>
     [chars |-> 15, q |-> 0, dots |-> 0,
      f |-> {<<"raw", "CLOSE_RULES.accept">>, <<"raw", "[A-Za-z]{3,}">>, <<"raw", "_AVAIL_PAT">>}]) @@
  ("ok" :>
     [chars |-> 2, q |-> 0, dots |-> 0,
      f |-> {<<"low", "POSTCLOSE_ACK_RE">>, <<"low", "_is_yes">>,
            <<"low", "chat._POSTCLOSE_ACK_RE">>, <<"raw", "CLOSE_RULES.accept">>,
            <<"raw", "_AFFIRM_RX">>}]) @@
  ("ok, eik nx" :>
     [chars |-> 10, q |-> 0, dots |-> 0,
      f |-> {<<"low", "POSTCLOSE_ACK_RE">>, <<"low", "_is_yes">>,
            <<"low", "chat._POSTCLOSE_ACK_RE">>, <<"raw", "CLOSE_RULES.accept">>,
            <<"raw", "CLOSE_RULES.troll">>, <<"raw", "[A-Za-z]{3,}">>,
            <<"raw", "_AFFIRM_RX">>}]) @@
  ("paskambinkit" :>
     [chars |-> 12, q |-> 0, dots |-> 0,
      f |-> {<<"raw", "CLOSE_RULES.call">>, <<"raw", "[A-Za-z]{3,}">>}]) @@
  ("paskambinkit veliau" :>
     [chars |-> 19, q |-> 0, dots |-> 0,
      f |-> {<<"raw", "CLOSE_RULES.call">>, <<"raw", "CLOSE_RULES.future">>,
            <<"raw", "[A-Za-z]{3,}">>, <<"raw", "lt letter">>}]) @@
  ("stop" :>
     [chars |-> 4, q |-> 0, dots |-> 0,
      f |-> {<<"low", "DNC_PHRASES stop">>, <<"raw", "CLOSE_RULES.dnc">>,
            <<"raw", "[A-Za-z]{3,}">>, <<"raw", "_HARD_STOP_RX">>}]) @@
  ("stop, paskambinkit" :>
     [chars |-> 18, q |-> 0, dots |-> 0,
      f |-> {<<"low", "DNC_PHRASES stop">>, <<"raw", "CLOSE_RULES.call">>,
            <<"raw", "CLOSE_RULES.dnc">>, <<"raw", "[A-Za-z]{3,}">>,
            <<"raw", "_HARD_STOP_RX">>}]) @@
  ("taip" :>
     [chars |-> 4, q |-> 0, dots |-> 0,
      f |-> {<<"low", "_is_yes">>, <<"low", "_user_future_yes">>, <<"raw", "CLOSE_RULES.accept">>,
            <<"raw", "[A-Za-z]{3,}">>, <<"raw", "_AFFIRM_RX">>}]) @@
  ("taip, domina" :>
     [chars |-> 12, q |-> 0, dots |-> 0,
      f |-> {<<"low", "_is_yes">>, <<"low", "_user_future_yes">>, <<"raw", "CLOSE_RULES.accept">>,
            <<"raw", "[A-Za-z]{3,}">>, <<"raw", "_AFFIRM_RX">>}])
LostByStrip ==
  ("Aciu uz Jusu laika - uzsirasiau." :> {<<"norm", "HUMAN_CLOSE.head">>}) @@
  ("Palikime cia." :> {<<"norm", "TROLL_CLOSE.head">>}) @@
  ("Puiku - uzsirasysiu ateiciai." :> {<<"norm", "FUTURE_CLOSE.head">>}) @@
  ("Siulome lankscius grafikus, greita pradzia ir paprasta procesa isidarbinant." :> {<<"low", "VALUE_LINE">>}) @@
  ("Supratau - daugiau nerasysime." :> {<<"norm", "DNC_CLOSE.head">>})
SpaceAt ==
  ("<a filler sentence of 202 characters>" :> {5, 10, 18, 26, 33, 42, 45, 52, 60, 74, 81, 88, 93, 98, 110, 117, 121, 128, 141, 149, 153, 160, 166, 177, 180, 183, 189}) @@
  ("PROMPT_SHA <a model name of 190 characters>" :> {13})
UnidMap ==
  ("Esu Valandinis.lt atstovas." :> "atstovas.")
EsuRwMap ==
  ("Esu Valandinis.lt atstovas." :> "Rasau is Valandinis.lt atstovas.")
GreetRwMap ==
  ("Sveiki, Sveiki, dekojame uz atsakyma." :> "Sveiki, dekojame uz atsakyma.")
GreetRwOpenerMap ==
  ("Sveiki, Sveiki, dekojame uz atsakyma." :> "Sveiki! dekojame uz atsakyma.")
SqueezeMap ==
  ("Nuo kada galetumete  pradeti?" :> "Nuo kada galetumete pradeti?")
SpecialistRwMap ==
  (<<"Reikalingas patyres specialistas.", "None">> :> "Reikalingas patyres statybu srityje.") @@
  (<<"Reikalingas patyres specialistas.", "elektrikas">> :> "Reikalingas patyres elektrikas.")
YearsMap ==
  ("5 metai" :> 5)
TradeMap ==
  ("as santechnikas" :> "as santechnikas")
OpenerSpecMap ==
  ("Cia Valandinis.lt - matome, kad Vilniuje turime objekta, kuriame reikalingas elektrikas." :> "elektrikas")
AckPrefixMap ==
  ("!prompt" :> "Supratau.") @@
  ("5 metai" :> "Supratau.") @@
  ("aciu" :> "Aciu.") @@
  ("ar jus bot" :> "Supratau.") @@
  ("as santechnikas" :> "Supratau.") @@
  ("eik nx" :> "Supratau.") @@
  ("gal ateityje" :> "Supratau.") @@
  ("gerai, o koks atlyginimas?" :> "Aciu.") @@
  ("kas per darbas?" :> "Supratau.") @@
  ("koks atlyginimas?" :> "Aciu.") @@
  ("labas" :> "Supratau.") @@
  ("man 25 metu" :> "Supratau.") @@
  ("ne" :> "") @@
  ("ne tas numeris" :> "Supratau.") @@
  ("ne, dabar neaktualu" :> "Supratau.") @@
  ("nedomina" :> "Supratau.") @@
  ("nuo pirmadienio" :> "Supratau.") @@
  ("ok" :> "") @@
  ("ok, eik nx" :> "Aciu.") @@
  ("paskambinkit" :> "Supratau.") @@
  ("paskambinkit veliau" :> "Supratau.") @@
  ("stop" :> "Supratau.") @@
  ("stop, paskambinkit" :> "Supratau.") @@
  ("taip" :> "Supratau.") @@
  ("taip, domina" :> "Supratau.")
\* ---- sentence lexicon: end ----

\* The sentence table is loaded with the program and never changes afterwards:
\* the operators below read it through this variable, which Init sets to
\* Lexicon and every action leaves unchanged.
VARIABLE lexicon

\* Python's None
None == "None"

Attr(map, k, default) == IF k \in DOMAIN map THEN map[k] ELSE default

Min(a, b) == IF a < b THEN a ELSE b

(***************************************************************************)
(* Texts: s the sentences, ws the number of whitespace characters beyond   *)
(* the single spaces that join the sentences, drop the number of           *)
(* characters removed from the end of the last sentence, ell whether a     *)
(* one-character ellipsis was appended.                                    *)
(***************************************************************************)
Text(ss) == [s |-> ss, ws |-> 0, drop |-> 0, ell |-> FALSE]

NoText == Text(<<>>)

SentChars(t, i) == lexicon[t.s[i]].chars - (IF i = Len(t.s) THEN t.drop ELSE 0)

RECURSIVE SumChars(_, _)
SumChars(t, n) == IF n = 0 THEN 0 ELSE SentChars(t, n) + SumChars(t, n - 1)

\* len(text)
TextLen(t) ==
  IF t.s = <<>> THEN t.ws
  ELSE SumChars(t, Len(t.s)) + (Len(t.s) - 1) + t.ws + (IF t.ell THEN 1 ELSE 0)

\* what matches the i-th sentence of t; the last sentence loses what its
\* removed characters carried
Features(t, i) ==
  LET id == t.s[i]
      f  == lexicon[id].f
  IN  IF i < Len(t.s) \/ t.drop = 0 THEN f
      ELSE IF t.drop <= lexicon[id].dots THEN f \ Attr(LostByStrip, id, {})
      ELSE f \cap {<<"raw", "[A-Za-z]{3,}">>, <<"raw", "lt letter">>}

\* the three forms in which the source searches a text
raw(t) == [form |-> "raw", t |-> t]

lower(t) == [form |-> "low", t |-> t]

_norm(t) == [form |-> "norm", t |-> t]

\* needle in x, rx.search(x)
In(name, x) == \E i \in 1..Len(x.t.s) : <<x.form, name>> \in Features(x.t, i)

\* a in x before b in x: re.search("a.*b", x) for parts that do not overlap
InOrder(a, b, whole, x) ==
  \/ In(whole, x)
  \/ \E i, j \in 1..Len(x.t.s) :
        /\ i < j
        /\ <<x.form, a>> \in Features(x.t, i)
        /\ <<x.form, b>> \in Features(x.t, j)

\* the first sentence matches a, the next one b: a two-sentence needle in x
InSeq(a, b, x) ==
  \E i \in 1..(Len(x.t.s) - 1) :
     /\ <<x.form, a>> \in Features(x.t, i)
     /\ <<x.form, b>> \in Features(x.t, i + 1)

\* r.count("?")
CountQ(t) ==
  LET RECURSIVE cq(_)
      cq(n) == IF n = 0 THEN 0
               ELSE (IF n = Len(t.s) /\ t.drop > 0 THEN 0 ELSE lexicon[t.s[n]].q)
                    + cq(n - 1)
  IN  cq(Len(t.s))

\* A variant of the cut at the first question mark that keeps the whole
\* reply; the count of question marks in the replies tells it from the code's.
UpToFirstQ_whole(t) == t

\* r.split("?")[0] + "?"
UpToFirstQ(t) ==
  LET i == CHOOSE k \in 1..Len(t.s) :
              /\ lexicon[t.s[k]].q > 0
              /\ \A m \in 1..(k - 1) : lexicon[t.s[m]].q = 0
  IN  [t EXCEPT !.s = SubSeq(t.s, 1, i), !.drop = 0]

\* re.sub over the sentences: each sentence becomes what the map says, and a
\* sentence that the substitution empties disappears
RECURSIVE MapSeq(_, _)
MapSeq(ss, map) ==
  IF ss = <<>> THEN <<>>
  ELSE LET h == Attr(map, Head(ss), Head(ss))
       IN  (IF h = "" THEN <<>> ELSE <<h>>) \o MapSeq(Tail(ss), map)

MapSents(t, map) ==
  LET ss == MapSeq(t.s, map)
  IN  [t EXCEPT !.s = ss,
                !.drop = IF ss # <<>> /\ t.s # <<>>
                            /\ Attr(map, t.s[Len(t.s)], t.s[Len(t.s)]) # ""
                         THEN t.drop ELSE 0]

\* the sentences of t that do not match the feature
RECURSIVE KeepFrom(_, _, _)
KeepFrom(t, i, fs) ==
  IF i > Len(t.s) THEN <<>>
  ELSE (IF Features(t, i) \cap fs = {} THEN <<t.s[i]>> ELSE <<>>)
       \o KeepFrom(t, i + 1, fs)

Without(t, fs) ==
  LET ss == KeepFrom(t, 1, fs)
  IN  [t EXCEPT !.s = ss,
                !.drop = IF t.s # <<>> /\ Features(t, Len(t.s)) \cap fs = {}
                         THEN t.drop ELSE 0]

\* s.strip(",. ")
StripPunct(t) ==
  IF t.s = <<>> THEN t
  ELSE [t EXCEPT !.drop = IF t.drop > 0 THEN t.drop
                          ELSE lexicon[t.s[Len(t.s)]].dots]

\* s[:k] for a text with single spaces, then rstrip()
Prefix(t, k, rstrip) ==
  LET RECURSIVE Start(_)
      Start(i) == IF i = 1 THEN 1 ELSE Start(i - 1) + SentChars(t, i - 1) + 1
      \* the sentence that holds character k, and the characters kept of it
      kept(j, room) ==
        IF rstrip /\ (room > SentChars(t, j)
                      \/ Min(room, SentChars(t, j)) \in Attr(SpaceAt, t.s[j], {}))
        THEN Min(Min(room, SentChars(t, j)), room - 1)
        ELSE Min(room, SentChars(t, j))
      cut(j) ==
        [s |-> SubSeq(t.s, 1, j), ws |-> 0,
         drop |-> lexicon[t.s[j]].chars - kept(j, k - Start(j) + 1), ell |-> FALSE]
  IN  IF TextLen(t) <= k THEN t
      ELSE cut(CHOOSE i \in 1..Len(t.s) :
                  /\ Start(i) <= k
                  /\ (i = Len(t.s) \/ Start(i + 1) > k))

\* A variant of _final_sms that collapses the whitespace and cuts nothing; the
\* length property of the replies tells it from the code's.
final_sms_uncut(s) == [MapSents(s, SqueezeMap) EXCEPT !.ws = 0]

(***************************************************************************)
(* _final_sms: whitespace collapsed to single spaces, and a text of more   *)
(* than 160 characters cut to 157 and an ellipsis.                         *)
(***************************************************************************)
_final_sms(s) ==
  LET cut(c) == IF TextLen(c) > 160 THEN [Prefix(c, 157, TRUE) EXCEPT !.ell = TRUE] ELSE c
  IN  cut([MapSents(s, SqueezeMap) EXCEPT !.ws = 0])

(***************************************************************************)
(* Constants of the reply generator.                                       *)
(***************************************************************************)
VALUE_LINE ==
  Text(<<"Siulome lankscius grafikus, greita pradzia ir paprasta procesa isidarbinant.">>)

CLOSE_TX == Text(<<"Perduosiu kolegai - paskambins del detaliu.">>)

YEAR_MAX == 70

HUMAN_CLOSE ==
  Text(<<"Aciu uz Jusu laika - uzsirasiau.", "Perduosiu kolegai - paskambins del detaliu.">>)

TROLL_CLOSE == Text(<<"Palikime cia.", "Jei rimtai domins darbas, parasykite.">>)

DNC_CLOSE == Text(<<"Supratau - daugiau nerasysime.", "Grazios dienos!">>)

FUTURE_CLOSE == Text(<<"Puiku - uzsirasysiu ateiciai.">> \o VALUE_LINE.s)

\* the closing line of the "call" rule and of the call-request branch
CALL_CLOSE == Text(<<"Puiku - perduosiu kolegai, jis jums paskambins.">>)

\* the closing line of the "wrong" rule
WRONG_CLOSE ==
  Text(<<"Atsiprasome uz trukdyma - patikslinsime kontaktus.", "Daugiau nerasysime.">>)

\* the goodbye that the inbound handlers send when they set the DNC flag
DNC_GOODBYE == Text(<<"Supratau - daugiau netrukdysime.", "Grazios dienos!">>)

(***************************************************************************)
(* Histories: sequences of [role, content], oldest first.                  *)
(***************************************************************************)
_assistant_has(history, needle) ==
  \E i \in 1..Len(history) :
     history[i].role = "assistant" /\ In(needle, lower(history[i].content))

_identity_already_used(history) ==
  \E i \in 1..Len(history) :
     history[i].role = "assistant" /\ In("valandinis.lt", lower(history[i].content))

_strip_repeated_value_line(msg, history) ==
  IF msg.s = <<>> THEN msg
  ELSE IF _assistant_has(history, "VALUE_LINE")
       THEN [Without(msg, {<<"low", "VALUE_LINE">>}) EXCEPT !.ws = 0]
       ELSE msg

_num_user_msgs(history) ==
  Cardinality({i \in 1..Len(history) : history[i].role = "user"})

_is_first_user_reply_after_opener(history) ==
  /\ _num_user_msgs(history) = 1
  /\ \E i \in 1..Len(history) : history[i].role = "assistant"

_last_assistant_text(history) ==
  LET idx == {i \in 1..Len(history) : history[i].role = "assistant"}
  IN  IF idx = {} THEN NoText
      ELSE history[CHOOSE i \in idx : \A j \in idx : j <= i].content

CLOSE_PATTERNS ==
  << [whole |-> "CLOSE_PATTERNS.0", a |-> "rx perduosiu koleg", b |-> "rx paskambins"],
     [whole |-> "CLOSE_PATTERNS.1", a |-> "rx aciu uz laika", b |-> "rx perduosiu koleg"],
     [whole |-> "CLOSE_PATTERNS.2", a |-> None, b |-> None],
     [whole |-> "CLOSE_PATTERNS.3", a |-> None, b |-> None],
     [whole |-> "CLOSE_PATTERNS.4", a |-> None, b |-> None] >>

\* rx.search(x) for the patterns above
search(rx, x) ==
  IF rx.a = None THEN In(rx.whole, x) ELSE InOrder(rx.a, rx.b, rx.whole, x)

\* a closing template, normalised, as a needle in x
InTemplate(name, x) ==
  CASE name = "HUMAN_CLOSE"  -> InSeq("HUMAN_CLOSE.head", "HUMAN_CLOSE.tail", x)
    [] name = "DNC_CLOSE"    -> InSeq("DNC_CLOSE.head", "DNC_CLOSE.tail", x)
    [] name = "FUTURE_CLOSE" -> InSeq("FUTURE_CLOSE.head", "FUTURE_CLOSE.tail", x)
    [] name = "TROLL_CLOSE"  -> InSeq("TROLL_CLOSE.head", "TROLL_CLOSE.tail", x)
    [] name = "CLOSE_TX"     -> In("CLOSE_TX", x)

_assistant_last_was_close(history) ==
  LET close(last) ==
        /\ last.t.s # <<>>
        /\ \/ (In("perduosiu koleg", last) /\ In("paskambins", last))
           \/ In("daugiau nerasysime", last)
           \/ (In("uzsirasi", last) /\ In("ateiciai", last))
           \/ In("palikime cia", last)
           \/ \E k \in 1..Len(CLOSE_PATTERNS) : search(CLOSE_PATTERNS[k], last)
  IN  close(_norm(_last_assistant_text(history)))

_last_close_type(history) ==
  LET type(last) ==
        IF last.t.s = <<>> THEN None
        ELSE IF \/ InTemplate("HUMAN_CLOSE", last)
                \/ InTemplate("CLOSE_TX", last)
                \/ (In("perduosiu koleg", last) /\ In("paskambins", last))
             THEN "human"
        ELSE IF InTemplate("FUTURE_CLOSE", last)
                \/ (In("uzsirasi", last) /\ In("ateiciai", last))
             THEN "future"
        ELSE IF InTemplate("DNC_CLOSE", last) \/ In("daugiau nerasysime", last)
             THEN "dnc"
        ELSE IF InTemplate("TROLL_CLOSE", last) \/ In("palikime cia", last)
             THEN "troll"
        ELSE IF \E k \in 1..Len(CLOSE_PATTERNS) : search(CLOSE_PATTERNS[k], last)
             THEN IF In("daugiau nerasysime", last) THEN "dnc"
                  ELSE IF In("ateiciai", last) THEN "future"
                  ELSE "human"
        ELSE None
  IN  type(_norm(_last_assistant_text(history)))

\* a number of years, or -1 for None
_parse_experience_years(text) ==
  IF text.s = <<>> THEN -1 ELSE Attr(YearsMap, text.s[1], -1)

_extract_availability(text) ==
  IF In("_AVAIL_PAT", raw(text)) THEN text.s[1] ELSE None

_extract_opener_specialty(history) ==
  LET hit(i) == /\ history[i].role = "assistant"
                /\ \E k \in 1..Len(history[i].content.s) :
                      history[i].content.s[k] \in DOMAIN OpenerSpecMap
      idx == {i \in 1..Len(history) : hit(i)}
  IN  IF idx = {} THEN None
      ELSE LET m == history[CHOOSE i \in idx : \A j \in idx : i <= j].content
               k == CHOOSE k \in 1..Len(m.s) :
                       /\ m.s[k] \in DOMAIN OpenerSpecMap
                       /\ \A n \in 1..(k - 1) : m.s[n] \notin DOMAIN OpenerSpecMap
           IN  OpenerSpecMap[m.s[k]]

_extract_user_trade(text) ==
  IF text.s = <<>> THEN None ELSE Attr(TradeMap, text.s[1], None)

_asked_which_slot(msg) ==
  IF In("kiek metu patirties", lower(msg)) THEN "years"
  ELSE IF In("nuo kada galetumete pradeti", lower(msg)) \/ In("koks grafikas tinka", lower(msg))
       THEN "availability"
  ELSE None

\* The loop runs from the newest question/answer pair to the oldest and
\* overwrites, so each slot ends with the answer of the oldest pair.
_inferred_slots(history) ==
  LET pair(i, which) ==
        /\ history[i].role = "assistant"
        /\ history[i + 1].role = "user"
        /\ _asked_which_slot(history[i].content) = which
      least(idx) == IF idx = {} THEN 0 ELSE CHOOSE i \in idx : \A j \in idx : i <= j
      first(which) == least({i \in 1..(Len(history) - 1) : pair(i, which)})
      years(ans) ==
        IF In("AGE_VAL_PAT", raw(ans)) /\ ~In("patirt", lower(ans)) THEN -1
        ELSE _parse_experience_years(ans)
      slots(iy, ia) ==
        [years |-> IF iy = 0 THEN -1 ELSE years(history[iy + 1].content),
         availability |-> IF ia = 0 THEN None
                          ELSE _extract_availability(history[ia + 1].content)]
  IN  slots(first("years"), first("availability"))

QUESTION_INTENTS ==
  {"project_question", "direct_question", "salary_question", "schedule_question",
   "location_question"}

_looks_like_question(txt) ==
  In("endswith ?", raw(txt)) \/ In("LT_Q_WORDS", raw(txt))

\* "", "Aciu. " or "Supratau. ", as the sentences it contributes
_ack_prefix(user_text) ==
  LET p == IF user_text.s = <<>> THEN "" ELSE Attr(AckPrefixMap, user_text.s[1], "")
  IN  IF p = "" THEN <<>> ELSE <<p>>

_assistant_future_probe_asked(history) ==
  \E i \in 1..Len(history) :
     /\ history[i].role = "assistant"
     /\ \E n \in {"ar ateityje noretumete bendradarbiauti",
                  "ar ateityje noretumete susisiekti",
                  "ar ateityje domintu", "palaikyti rysi ateiciai"} :
           In(n, lower(history[i].content))

_user_future_yes(text) == In("_user_future_yes", lower(text))

_last_assistant_question_type(history) ==
  LET type(last, s) ==
        IF last.s = <<>> THEN None
        ELSE IF In("ar ateityje noretumete bendradarbiauti", s)
                \/ In("palaikyti rysi ateiciai", s)
             THEN "future_probe"
        ELSE IF In("ar sis pasiulymas jums aktualus", s) \/ In("ar aktualu", s)
             THEN "interest_check"
        ELSE IF In("kiek metu patirties", s) THEN "years_q"
        ELSE IF In("nuo kada galetumete pradeti", s) \/ In("koks grafikas tinka", s)
             THEN "availability_q"
        ELSE None
  IN  type(_last_assistant_text(history), _norm(_last_assistant_text(history)))

_is_affirmative(txt) == In("_AFFIRM_RX", raw(txt))

_is_decline(txt) == In("_DECLINE_RX", raw(txt))

(***************************************************************************)
(* _polish, step by step as the source applies its substitutions.          *)
(***************************************************************************)
LT_ONLY == Text(<<"Atsakykite trumpai lietuviskai ir tesime.">>)

_polish(reply, history, opener_spec) ==
  LET \* the identity phrase removed, then strip(",. ")
      r1(r) == IF _identity_already_used(history)
               THEN StripPunct(MapSents(r, UnidMap)) ELSE r
      \* "Esu Valandinis.lt" rewritten
      r2(r) == MapSents(r, EsuRwMap)
      \* "specialist..." replaced by the opener's specialty
      r3(r) == IF In("specialist", lower(r))
               THEN MapSents(r, [id \in {k[1] : k \in DOMAIN SpecialistRwMap} |->
                                   SpecialistRwMap[<<id, opener_spec>>]])
               ELSE r
      \* the banned line removed
      r4(r) == Without(r, {<<"raw", "_BAD_LINES">>})
      \* a doubled greeting at the start
      r5(r) == IF r.s = <<>> THEN r
               ELSE [r EXCEPT !.s[1] = Attr(GreetRwMap, r.s[1], r.s[1])]
      \* at most one question
      r6(r) == IF CountQ(r) > 1 THEN UpToFirstQ(r) ELSE r
      r7(r) == _strip_repeated_value_line(r, history)
      \* a reply without a Lithuanian letter is replaced
      r8(r) == IF In("[A-Za-z]{3,}", raw(r)) /\ ~In("lt letter", raw(r)) THEN LT_ONLY ELSE r
  IN  IF reply.s = <<>> /\ reply.ws = 0 THEN reply
      ELSE r8(r7(r6(r5(r4(r3(r2(r1(IF reply.s = <<>> THEN NoText ELSE reply))))))))

(***************************************************************************)
(* Close rules, in the order of the source.                                *)
(***************************************************************************)
CLOSE_RULES ==
  << [name |-> "dnc",    rx |-> "CLOSE_RULES.dnc",    msg |-> DNC_CLOSE],
     [name |-> "future", rx |-> "CLOSE_RULES.future", msg |-> FUTURE_CLOSE],
     [name |-> "call",   rx |-> "CLOSE_RULES.call",   msg |-> CALL_CLOSE],
     [name |-> "accept", rx |-> "CLOSE_RULES.accept", msg |-> HUMAN_CLOSE],
     [name |-> "wrong",  rx |-> "CLOSE_RULES.wrong",  msg |-> WRONG_CLOSE],
     [name |-> "troll",  rx |-> "CLOSE_RULES.troll",  msg |-> TROLL_CLOSE] >>

\* the message of the first rule that matches; the empty text for None
_apply_close_rules(user_text) ==
  LET hits == {k \in 1..Len(CLOSE_RULES) : In(CLOSE_RULES[k].rx, raw(user_text))}
  IN  IF hits = {} THEN NoText
      ELSE CLOSE_RULES[CHOOSE k \in hits : \A j \in hits : k <= j].msg

_is_hard_stop(txt) == In("_HARD_STOP_RX", raw(txt))

(***************************************************************************)
(* analyze: obj is the JSON object that the model returned (a field that   *)
(* the object lacks is None, or -1 where the field is a number); the       *)
(* result is the plan.                                                     *)
(***************************************************************************)
Or(v, default) == IF v = None THEN default ELSE v

analyze(user_text, obj) ==
  LET job_interest == Or(obj.job_interest, "unknown")
      intent       == Or(obj.intent, "other")
      yrs          == obj.years
      age          == obj.age_question \/ obj.age_value # -1
  IN  [job_interest      |-> IF job_interest \in {"unknown", "unsure"}
                                /\ (intent \in QUESTION_INTENTS
                                    \/ _looks_like_question(user_text))
                             THEN "yes" ELSE job_interest,
       future_interest   |-> Or(obj.future_interest, "unknown"),
       intent            |-> intent,
       years             |-> IF yrs < 0 \/ yrs > YEAR_MAX THEN -1 ELSE yrs,
       availability_text |-> obj.availability_text,
       asked_salary      |-> obj.asked_salary,
       phone_only_topics |-> IF age THEN obj.phone_only_topics \cup {"age"}
                             ELSE obj.phone_only_topics,
       busy_until        |-> obj.busy_until,
       hesitant          |-> obj.hesitant,
       age_question      |-> obj.age_question,
       age_value         |-> obj.age_value,
       trolling          |-> obj.trolling]

(***************************************************************************)
(* generate_reply_lt.  history is what _thread_history returns (the open   *)
(* thread, the inbound message included); io holds what the environment    *)
(* supplies during the call: whether the analyzer call succeeds and the    *)
(* object it returns, whether the generator call succeeds and the text it  *)
(* returns, and the "PROMPT_SHA MODEL" string of the build.                *)
(***************************************************************************)
_close_and_return(msg, history, opener_spec) ==
  _final_sms(_polish(msg, history, opener_spec))

IDENT == <<"Rasau is Valandinis.lt.">>

INTEREST_Q == <<"Ar sis pasiulymas jums aktualus?">>

\* f"Tai darbas {role_word} pozicijoje Klaipedoje; detales suderinsime telefonu."
FirstAnswer(role_word) ==
  CASE role_word = "elektriko" ->
         <<"Tai darbas elektriko pozicijoje Klaipedoje; detales suderinsime telefonu.">>
    [] role_word = "elektrikas" ->
         <<"Tai darbas elektrikas pozicijoje Klaipedoje; detales suderinsime telefonu.">>

\* f"Tai darbas {role_word} pozicijoje; konkrecias salygas suderinsime telefonu."
LaterAnswer(role_word) ==
  CASE role_word = "elektriko" ->
         <<"Tai darbas elektriko pozicijoje; konkrecias salygas suderinsime telefonu.">>
    [] role_word = "elektrikas" ->
         <<"Tai darbas elektrikas pozicijoje; konkrecias salygas suderinsime telefonu.">>

\* f"Kiek metu patirties turite kaip {(opener_spec or 'meistras')}?"
YearsQuestion(opener_spec) ==
  CASE opener_spec = None -> Text(<<"Kiek metu patirties turite kaip meistras?">>)
    [] opener_spec = "elektrikas" ->
         Text(<<"Kiek metu patirties turite kaip elektrikas?">>)

AVAILABILITY_Q == Text(<<"Nuo kada galetumete pradeti arba koks grafikas tinka?">>)

FUTURE_PROBE ==
  Text(<<"Supratau, aciu.", "Ar ateityje noretumete bendradarbiauti su Valandinis.lt?">>)

\* the plan after the turn-local disambiguation
Disambiguate(plan, history, t_raw) ==
  LET turn(last_q) ==
        IF last_q = "future_probe"
        THEN IF _is_affirmative(t_raw) /\ plan.intent \notin {"accept", "call_request"}
             THEN [plan EXCEPT !.future_interest = "yes", !.job_interest = "no"]
             ELSE IF _is_decline(t_raw)
                  THEN [plan EXCEPT !.future_interest = "no", !.job_interest = "no"]
                  ELSE plan
        ELSE IF last_q = "interest_check"
        THEN IF _is_affirmative(t_raw) THEN [plan EXCEPT !.job_interest = "yes"]
             ELSE IF _is_decline(t_raw) THEN [plan EXCEPT !.job_interest = "no"]
             ELSE plan
        ELSE plan
  IN  turn(_last_assistant_question_type(history))

have_years(plan, history) ==
  _inferred_slots(history).years # -1 \/ plan.years # -1

have_availability(plan, history) ==
  \/ _inferred_slots(history).availability # None
  \/ plan.availability_text \notin {None, ""}
  \/ plan.busy_until \notin {None, ""}

\* the reply after generate_sms returned: phone-only sentences stripped
\* unless asked, slot order enforced
AfterGenerate(plan, history, opener_spec, sms) ==
  LET strip == /\ ~(plan.asked_salary \/ plan.age_question \/ plan.age_value # -1)
               /\ plan.phone_only_topics \cap {"salary", "age"} = {}
      \* the sentences about salary or age go, unless nothing would be left
      reply1(reply, kept) ==
        IF strip /\ kept.s # <<>> THEN [kept EXCEPT !.ws = 0] ELSE reply
      \* the availability question waits for the years
      reply2(reply) ==
        IF (In("kada galetumete pradeti", lower(reply))
            \/ In("koks grafikas tinka", lower(reply)))
           /\ ~have_years(plan, history)
        THEN YearsQuestion(opener_spec) ELSE reply
  IN  _final_sms(_polish(reply2(reply1(sms, Without(sms, {<<"raw", "SAL_KWS">>,
                                                          <<"raw", "AGE_Q_PAT">>,
                                                          <<"raw", "AGE_VAL_PAT">>}))),
                         history, opener_spec))

\* which branch generate_reply_lt takes once the plan is known
Branch(plan, history, t_raw) ==
  LET branch(question, guard) ==
        IF plan.trolling THEN "troll"
        ELSE IF _is_first_user_reply_after_opener(history) /\ question THEN "first_reply"
        ELSE IF question THEN "q_first"
        ELSE IF plan.intent = "identity_question" THEN "identity"
        ELSE IF plan.intent = "call_request" THEN "call"
        ELSE IF plan.job_interest = "yes" /\ ~guard THEN "interested"
        ELSE IF (IF plan.job_interest = "yes" /\ guard THEN "no" ELSE plan.job_interest) = "no"
             THEN "decline"
        ELSE "neutral"
  IN  branch(plan.intent \in QUESTION_INTENTS \/ _looks_like_question(t_raw),
             /\ _last_assistant_question_type(history) = "future_probe"
             /\ plan.intent \notin {"accept", "call_request"})

\* the message of a branch that does not call generate_sms, before _polish
BranchText(plan, b, opener_spec, identity, history, t_raw) ==
  CASE b = "troll" -> TROLL_CLOSE
    [] b = "first_reply" ->
         IF plan.intent = "salary_question"
         THEN Text(identity
                   \o <<"Aciu uz klausima - atlygio klausima patogiausia suderinti telefonu.">>
                   \o INTEREST_Q)
         ELSE Text(identity \o _ack_prefix(t_raw)
                   \o FirstAnswer(Or(opener_spec, "elektriko")) \o INTEREST_Q)
    [] b = "q_first" ->
         IF plan.job_interest = "yes" THEN HUMAN_CLOSE
         ELSE IF plan.intent = "salary_question"
         THEN Text(<<"Aciu uz klausima - del atlygio patogiausia suderinti telefonu, kolega paskambins.">>
                   \o INTEREST_Q)
         ELSE Text(_ack_prefix(t_raw) \o LaterAnswer(Or(opener_spec, "elektriko"))
                   \o INTEREST_Q)
    [] b = "identity" -> Text(identity \o INTEREST_Q)
    [] b = "call" -> CALL_CLOSE
    [] b = "interested" ->
         IF have_years(plan, history) \/ have_availability(plan, history)
         THEN HUMAN_CLOSE
         ELSE YearsQuestion(opener_spec)
    [] b = "decline" ->
         IF _is_hard_stop(t_raw) THEN DNC_CLOSE
         ELSE IF plan.future_interest = "yes" \/ _user_future_yes(t_raw)
              THEN FUTURE_CLOSE
         ELSE IF plan.future_interest \in {"unknown", "unsure"}
                 /\ ~_assistant_future_probe_asked(history)
              THEN FUTURE_PROBE
         ELSE DNC_CLOSE

\* generate_reply_lt from the branch on: every branch returns
\* _final_sms(_polish(message, history, opener_spec)), the closing ones through
\* _close_and_return
AfterBranch(plan, b, opener_spec, history, t_raw, io) ==
  IF b = "neutral" THEN AfterGenerate(plan, history, opener_spec, io.sms)
  ELSE _close_and_return(BranchText(plan, b, opener_spec,
                                    IF _identity_already_used(history) THEN <<>> ELSE IDENT,
                                    history, t_raw),
                         history, opener_spec)

\* generate_reply_lt from the plan on
AfterPlan(plan, history, t_raw, io) ==
  AfterBranch(plan, Branch(plan, history, t_raw), _extract_opener_specialty(history),
              history, t_raw, io)

\* generate_reply_lt from analyze() on
AfterAnalyze(history, t_raw, io) ==
  AfterPlan(Disambiguate(analyze(t_raw, io.obj), history, t_raw), history, t_raw, io)

\* the call reaches analyze()
ReachesAnalyze(history, text) ==
  /\ text.s # <<>>
  /\ ~In("debug command", lower(text))
  /\ ~_assistant_last_was_close(history)
  /\ _apply_close_rules(text).s = <<>>
  /\ ~In("robot", raw(text))

\* the call reaches generate_sms()
ReachesGenerate(history, text, io) ==
  /\ ReachesAnalyze(history, text)
  /\ io.a_ok
  /\ Branch(Disambiguate(analyze(text, io.obj), history, text), history, text) = "neutral"

\* neither model call is wrapped in a try: a failed call raises out of
\* generate_reply_lt
generate_reply_lt_raises(history, text, io) ==
  \/ ReachesAnalyze(history, text) /\ ~io.a_ok
  \/ ReachesGenerate(history, text, io) /\ ~io.g_ok

generate_reply_lt(history, text, io) ==
  IF text.s = <<>> THEN NoText
  ELSE IF In("debug command", lower(text)) THEN Prefix(io.prompt_info, 160, FALSE)
  ELSE IF _assistant_last_was_close(history) THEN NoText
  ELSE IF _apply_close_rules(text).s # <<>>
       THEN _close_and_return(_apply_close_rules(text), history,
                              _extract_opener_specialty(history))
  ELSE IF In("robot", raw(text))
       THEN _final_sms(_polish(IF ~_identity_already_used(history) THEN Text(IDENT)
                               ELSE [NoText EXCEPT !.ws = 1],
                               history, _extract_opener_specialty(history)))
  ELSE AfterAnalyze(history, text, io)

(***************************************************************************)
(* The opener.  o is what the environment supplies: whether the model call *)
(* succeeds and the text it returns.                                       *)
(***************************************************************************)
OPENER_QUESTION == "Ar siuo metu dirbate ar atviri naujam objektui?"

\* the opener template, filled in for a city and a specialty
OpenerFallback(city, specialty) ==
  CASE city = "Vilniuje" /\ specialty = "elektrikas" ->
         Text(<<"Sveiki!",
                "Cia Valandinis.lt - matome, kad Vilniuje turime objekta, kuriame reikalingas elektrikas.",
                OPENER_QUESTION>>)

generate_opener_lt(name, city, specialty, o) ==
  LET \* a doubled greeting at the start
      t1(t) == IF t.s = <<>> THEN t
               ELSE [t EXCEPT !.s[1] = Attr(GreetRwOpenerMap, t.s[1], t.s[1])]
      \* at most one question
      t2(t) == IF CountQ(t) > 1 THEN UpToFirstQ(t) ELSE t
  IN  IF city = "" \/ specialty = ""
      THEN _final_sms(Text(<<"Sveiki!", "Cia Valandinis.lt.", OPENER_QUESTION>>))
      ELSE IF o.ok THEN _final_sms(t2(t1(o.text)))
      ELSE _final_sms(OpenerFallback(city, specialty))

project_opener(name, city, specialty, o) == generate_opener_lt(name, city, specialty, o)

(***************************************************************************)
(* The outcome summarizer.                                                 *)
(***************************************************************************)
_is_no(txt) == In("_is_no", lower(txt))

_is_yes(txt) == In("_is_yes", lower(txt))

_is_maybe_future(txt) == In("_is_maybe_future", lower(txt))

classify_thread_outcome(history) ==
  LET last(users) ==
        IF users = {} THEN NoText
        ELSE history[CHOOSE i \in users : \A j \in users : j <= i].content
      result(outcome, fm, slots) ==
        [outcome |-> outcome, future_maybe |-> fm,
         years |-> slots.years, availability |-> slots.availability]
      classify(slots, ctype, last_user) ==
        IF ctype = "human" THEN result("interested", FALSE, slots)
        ELSE IF ctype = "future" THEN result("interested", TRUE, slots)
        ELSE IF ctype \in {"dnc", "troll"} THEN result("not_interested", FALSE, slots)
        ELSE IF _is_no(last_user)
             THEN result("not_interested", _is_maybe_future(last_user), slots)
        ELSE IF \/ _looks_like_question(last_user)
                \/ _is_yes(last_user)
                \/ slots.years # -1
                \/ slots.availability # None
             THEN result("interested", _is_maybe_future(last_user), slots)
        ELSE result("undecided", _is_maybe_future(last_user), slots)
  IN  classify(_inferred_slots(history), _last_close_type(history),
               last({i \in 1..Len(history) : history[i].role = "user"}))

\* history is _thread_history(msisdn, limit=50); k is what the environment
\* supplies to the analyzer call made here: whether it succeeds, and the object
summarize_thread_kpis(history, last_user_text, k) ==
  LET interested(out) ==
        IF out.outcome = "interested" THEN "yes"
        ELSE IF out.outcome = "not_interested" THEN "no"
        ELSE "unsure"
      f0(ctype) ==
        IF ctype = "future" THEN "yes"
        ELSE IF ctype \in {"dnc", "troll"} THEN "no"
        ELSE "unknown"
      \* the analyzer is asked only while the answer is unknown; a failed call
      \* is swallowed
      f1(f, fi) ==
        IF f = "unknown" /\ last_user_text.s # <<>> /\ k.a_ok
           /\ fi \in {"yes", "no", "unsure", "unknown"}
        THEN fi ELSE f
      f2(f, out) ==
        IF f = "unknown"
        THEN IF out.future_maybe THEN "yes"
             ELSE IF out.outcome = "not_interested" THEN "no" ELSE "unknown"
        ELSE f
      kpis(out, ctype) ==
        [interested |-> interested(out),
         future_interest |-> f2(f1(f0(ctype), analyze(last_user_text, k.obj).future_interest),
                                out),
         years |-> out.years]
  IN  kpis(classify_thread_outcome(history), _last_close_type(history))

\* summarize_thread_kpis calls the analyzer
KpiReachesAnalyze(history, last_user_text) ==
  /\ _last_close_type(history) \notin {"future", "dnc", "troll"}
  /\ last_user_text.s # <<>>

\* ---- system: begin ----
(***************************************************************************)
(* The state.  contacts and threads are the tables of storage/models.py   *)
(* (a thread's id is its index, its messages are kept in ts order); sms   *)
(* is what was handed to the SMS provider; kpis are the rows of the       *)
(* ThreadKPIs sheet; inflight holds the handlers that are suspended, at   *)
(* "await provider.send" or, for a handler of the thread pool, between two *)
(* of its statements; lastOp is the handler that started last.  arg and   *)
(* res hold the input and the output of a function checked on its own.    *)
(***************************************************************************)
VARIABLES contacts, threads, sms, kpis, inflight, steps, lastOp, arg, res

vars == <<lexicon, contacts, threads, sms, kpis, inflight, steps, lastOp, arg, res>>

Phones == {"p1", "p2"}

MaxSteps == 2

\* what the handlers read and write, as one value
World == [contacts |-> contacts, threads |-> threads, kpis |-> kpis]

Contact == [exists |-> FALSE, dnc |-> FALSE]

Thread(phone) == [phone |-> phone, status |-> "open", msgs |-> <<>>]

Message(dir, body) == [dir |-> dir, body |-> body]

SMS(to, body, userref) == [to |-> to, body |-> body, userref |-> userref]

Max(a, b) == IF a > b THEN a ELSE b

ThreadsOf(w, phone) == {i \in 1..Len(w.threads) : w.threads[i].phone = phone}

OpenThreadsOf(w, phone) == {i \in ThreadsOf(w, phone) : w.threads[i].status = "open"}

\* A variant of the open-thread lookup without the filter on the phone; the
\* isolation of the contacts tells it from the code's.
OpenThread_any_phone(w, phone) ==
  LET open == {i \in 1..Len(w.threads) : w.threads[i].status = "open"}
  IN  IF open = {} THEN 0 ELSE CHOOSE i \in open : \A j \in open : i <= j

\* db.query(Thread).filter_by(phone=phone, status="open").first(): 0 is None
OpenThread(w, phone) ==
  IF OpenThreadsOf(w, phone) = {} THEN 0
  ELSE CHOOSE i \in OpenThreadsOf(w, phone) : \A j \in OpenThreadsOf(w, phone) : i <= j

_latest_thread(w, phone) ==
  IF ThreadsOf(w, phone) = {} THEN 0
  ELSE CHOOSE i \in ThreadsOf(w, phone) : \A j \in ThreadsOf(w, phone) : j <= i

\* the messages of a thread as the role/content list the planner reads
History(msgs) ==
  [i \in 1..Len(msgs) |->
     [role |-> IF msgs[i].dir = "out" THEN "assistant" ELSE "user",
      content |-> msgs[i].body]]

HISTORY_LIMIT == 14

KPI_HISTORY_LIMIT == 50

_thread_history(w, phone, limit) ==
  LET t == OpenThread(w, phone)
  IN  IF t = 0 THEN <<>>
      ELSE LET msgs == w.threads[t].msgs
           IN  History(SubSeq(msgs, Max(1, Len(msgs) - limit + 1), Len(msgs)))

_ensure_contact_thread(w, phone) ==
  LET w1 == [w EXCEPT !.contacts[phone].exists = TRUE]
      t  == OpenThread(w, phone)
  IN  IF t # 0 THEN [w |-> w1, t |-> t]
      ELSE [w |-> [w1 EXCEPT !.threads = Append(@, Thread(phone))],
            t |-> Len(w.threads) + 1]

AddMessage(w, t, dir, body) ==
  [w EXCEPT !.threads[t].msgs = Append(@, Message(dir, body))]

\* the body of the newest message of a direction, NoText when there is none
LastBody(msgs, dir) ==
  LET idx == {i \in 1..Len(msgs) : msgs[i].dir = dir}
  IN  IF idx = {} THEN NoText
      ELSE msgs[CHOOSE i \in idx : \A j \in idx : j <= i].body

(***************************************************************************)
(* _finalize_thread_once.  env is what the environment supplies to one    *)
(* run of a handler: io to generate_reply_lt, k to the analyzer call of   *)
(* summarize_thread_kpis, sink whether the ThreadKPIs sheet takes the row *)
(* (ensure_headers and append_rows raise when it does not, and the raise  *)
(* is swallowed), o to project_opener, dnc_list the phrases that the      *)
(* deployment lists in DNC_PHRASES (none by default).                     *)
(***************************************************************************)
KpiRow(t, phone, k) ==
  [thread_id |-> t, phone |-> phone, interested |-> k.interested,
   future_interest |-> k.future_interest, years |-> k.years]

\* A variant of _finalize_thread_once without the early return on a closed
\* thread; the properties of repeated finalization tell it from the code's.
finalize_thread_unguarded(w, t, phone, last_user_text, env) ==
  LET k == summarize_thread_kpis(_thread_history(w, phone, KPI_HISTORY_LIMIT),
                                 last_user_text, env.k)
  IN  [w EXCEPT !.kpis = IF env.sink THEN Append(@, KpiRow(t, phone, k)) ELSE @,
                !.threads[t].status = "closed"]

\* A variant of _finalize_thread_once in which a failed sheet write ends the
\* function before the thread is closed; the indifference of the handlers to
\* the sheet tells it from the code's.
finalize_thread_sink_first(w, t, phone, last_user_text, env) ==
  IF w.threads[t].status = "closed" \/ ~env.sink THEN w
  ELSE LET k == summarize_thread_kpis(_thread_history(w, phone, KPI_HISTORY_LIMIT),
                                      last_user_text, env.k)
       IN  [w EXCEPT !.kpis = Append(@, KpiRow(t, phone, k)),
                     !.threads[t].status = "closed"]

_finalize_thread_once(w, t, phone, last_user_text, env) ==
  IF w.threads[t].status = "closed" THEN w
  ELSE LET k == summarize_thread_kpis(_thread_history(w, phone, KPI_HISTORY_LIMIT),
                                      last_user_text, env.k)
       IN  [w EXCEPT !.kpis = IF env.sink THEN Append(@, KpiRow(t, phone, k)) ELSE @,
                     !.threads[t].status = "closed"]

\* chat.py has its own copy, which refreshes the thread first
chat_finalize_thread_once(w, t, phone, last_user_text, env) ==
  IF w.threads[t].status = "closed" THEN w
  ELSE LET k == summarize_thread_kpis(_thread_history(w, phone, KPI_HISTORY_LIMIT),
                                      last_user_text, env.k)
       IN  [w EXCEPT !.kpis = IF env.sink THEN Append(@, KpiRow(t, phone, k)) ELSE @,
                     !.threads[t].status = "closed"]

(***************************************************************************)
(* Close detection.  main.py repeats _norm and the patterns of the        *)
(* planner; chat.py repeats them with its non-ASCII literals stored       *)
(* mis-encoded, so its _norm leaves the Lithuanian letters of a text as   *)
(* they are and its acknowledgement pattern lacks the accented words.     *)
(***************************************************************************)
chat_norm(t) == [form |-> "cnorm", t |-> t]

_is_close_text(text) ==
  LET close(last) ==
        /\ last.t.s # <<>>
        /\ \/ (In("perduosiu koleg", last) /\ In("paskambins", last))
           \/ In("daugiau nerasysime", last)
           \/ (In("uzsirasi", last) /\ In("ateiciai", last))
           \/ In("palikime cia", last)
           \/ \E k \in 1..Len(CLOSE_PATTERNS) : search(CLOSE_PATTERNS[k], last)
  IN  close(_norm(text))

chat_is_close_text(text) ==
  LET close(last) ==
        /\ last.t.s # <<>>
        /\ \/ (In("perduosiu koleg", last) /\ In("paskambins", last))
           \/ In("daugiau nerasysime", last)
           \/ (In("uzsirasi", last) /\ In("ateiciai", last))
           \/ In("palikime cia", last)
           \/ \E k \in 1..Len(CLOSE_PATTERNS) : search(CLOSE_PATTERNS[k], last)
  IN  close(chat_norm(text))

_assistant_closed_history(w, t) == _is_close_text(LastBody(w.threads[t].msgs, "out"))

chat_assistant_closed_history(w, t) ==
  chat_is_close_text(LastBody(w.threads[t].msgs, "out"))

\* any(p in norm for p in dnc_list), norm being the lower-cased text with its
\* commas and full stops turned into spaces
dnc_phrase_in(text, dnc_list) == \E p \in dnc_list : In(p, lower(text))

_POSTCLOSE_ACK_RE(text_l) == In("POSTCLOSE_ACK_RE", text_l)

chat_POSTCLOSE_ACK_RE(text_l) == In("chat._POSTCLOSE_ACK_RE", text_l)

(***************************************************************************)
(* The handlers, as functions of the world they find.  Each returns the   *)
(* world it leaves, the SMS it hands to the provider, and, when it is     *)
(* suspended before its end, what it still has to do.  The provider takes *)
(* a message when provider.send is called; the handler goes on when the   *)
(* call returns.                                                          *)
(***************************************************************************)
Result(w, out, cont) == [w |-> w, out |-> out, cont |-> cont]

Pending(op, phone, t, text, reply, userref, flushed) ==
  [op |-> op, phone |-> phone, t |-> t, text |-> text, reply |-> reply,
   userref |-> userref, flushed |-> flushed]

\* POST /webhooks/mo, to "await provider.send" or to its return
mo(w, msisdn, text, env) ==
  LET lt == _latest_thread(w, msisdn)
      ct == _ensure_contact_thread(w, msisdn)
      t  == ct.t
      w1 == AddMessage(ct.w, t, "in", text)
      h  == _thread_history(w1, msisdn, HISTORY_LIMIT)
      out(reply) ==
        IF TextLen(reply) = 0 THEN Result(w1, <<>>, <<>>)
        ELSE Result(w1, <<SMS(msisdn, reply, "llm-reply")>>,
                    <<Pending("mo", msisdn, t, text, reply, "llm-reply", FALSE)>>)
  IN  IF lt # 0 /\ _assistant_closed_history(w, lt) /\ _POSTCLOSE_ACK_RE(lower(text))
      THEN Result(_finalize_thread_once(w, lt, msisdn, text, env), <<>>, <<>>)
      ELSE IF w1.contacts[msisdn].dnc
      THEN Result(_finalize_thread_once(w1, t, msisdn, text, env), <<>>, <<>>)
      ELSE IF dnc_phrase_in(text, env.dnc_list)
      THEN Result(_finalize_thread_once([w1 EXCEPT !.contacts[msisdn].dnc = TRUE],
                                        t, msisdn, text, env),
                  <<SMS(msisdn, DNC_GOODBYE, "dnc-goodbye")>>, <<>>)
      ELSE IF classify_thread_outcome(History(w1.threads[t].msgs)).outcome = "not_interested"
      THEN Result(_finalize_thread_once([w1 EXCEPT !.contacts[msisdn].dnc = TRUE],
                                        t, msisdn, text, env),
                  <<SMS(msisdn, DNC_GOODBYE, "dnc-goodbye")>>, <<>>)
      ELSE IF generate_reply_lt_raises(h, text, env.io) THEN Result(w1, <<>>, <<>>)
      ELSE out(generate_reply_lt(h, text, env.io))

\* mo after provider.send returned: the reply is stored, and the thread is
\* finalized when the reply reads as a closing line
mo_resume(w, c, env) ==
  LET stored(w1) == IF _is_close_text(c.reply)
                    THEN _finalize_thread_once(w1, c.t, c.phone, c.text, env)
                    ELSE w1
  IN  stored(AddMessage(w, c.t, "out", c.reply))

\* one item of the Infobip poller, to "await provider.send" or to its return
_process_inbound_item(w, from_, text, env) ==
  LET lt == _latest_thread(w, from_)
      ct == _ensure_contact_thread(w, from_)
      t  == ct.t
      w1 == AddMessage(ct.w, t, "in", text)
      h  == _thread_history(w1, from_, HISTORY_LIMIT)
      out(reply) ==
        IF TextLen(reply) = 0 THEN Result(w1, <<>>, <<>>)
        ELSE Result(w1, <<SMS(from_, reply, "llm-reply")>>,
                    <<Pending("poll", from_, t, text, reply, "llm-reply", FALSE)>>)
  IN  IF text.s = <<>> THEN Result(w, <<>>, <<>>)
      ELSE IF lt # 0 /\ _assistant_closed_history(w, lt) /\ _POSTCLOSE_ACK_RE(lower(text))
      THEN Result(_finalize_thread_once(w, lt, from_, text, env), <<>>, <<>>)
      ELSE IF w1.contacts[from_].dnc
      THEN Result(_finalize_thread_once(w1, t, from_, text, env), <<>>, <<>>)
      ELSE IF classify_thread_outcome(History(w1.threads[t].msgs)).outcome = "not_interested"
      THEN Result(_finalize_thread_once([w1 EXCEPT !.contacts[from_].dnc = TRUE],
                                        t, from_, text, env),
                  <<SMS(from_, DNC_GOODBYE, "dnc-goodbye")>>, <<>>)
      ELSE IF generate_reply_lt_raises(h, text, env.io) THEN Result(w1, <<>>, <<>>)
      ELSE out(generate_reply_lt(h, text, env.io))

_process_inbound_item_resume(w, c, env) ==
  LET stored(w1) == IF _is_close_text(c.reply)
                    THEN _finalize_thread_once(w1, c.t, c.phone, c.text, env)
                    ELSE w1
  IN  stored(AddMessage(w, c.t, "out", c.reply))

\* POST /send past its guards (business hours, DNC, throttle), to
\* "await provider.send": the contact and the thread it adds are flushed, not
\* committed
send_allowed(w, to) == ~(w.contacts[to].exists /\ w.contacts[to].dnc)

send(w, to, body, userref) ==
  LET flushed(ct) == Result(ct.w, <<SMS(to, body, userref)>>,
                            <<Pending("send", to, ct.t, NoText, body, userref, ct.w # w)>>)
  IN  flushed(_ensure_contact_thread(w, to))

send_resume(w, c) == AddMessage(w, c.t, "out", c.reply)

\* POST /admin/send, for one row of the matches file: no table is read
admin_send(w, to, text) == Result(w, <<SMS(to, text, None)>>, <<>>)
(***************************************************************************)
(* The admin pages.  Every phone of the model is a row of the matches     *)
(* file, with city "Vilniuje" and specialty "elektrikas"; a seeded opener *)
(* is stored, never sent.                                                 *)
(***************************************************************************)
SEED_CITY == "Vilniuje"

SEED_SPECIALTY == "elektrikas"

\* admin.py: the open thread of the phone, or a new one
admin_get_or_create_thread(w, phone) ==
  LET t == OpenThread(w, phone)
  IN  IF t # 0 THEN [w |-> w, t |-> t]
      ELSE [w |-> [w EXCEPT !.threads = Append(@, Thread(phone))],
            t |-> Len(w.threads) + 1]

\* chat.py: the latest thread of the phone whatever its status, or a new one
chat_get_or_create_thread(w, phone) ==
  LET t == _latest_thread(w, phone)
  IN  IF t # 0 THEN [w |-> w, t |-> t]
      ELSE [w |-> [w EXCEPT !.threads = Append(@, Thread(phone))],
            t |-> Len(w.threads) + 1]

_ensure_opener_if_empty(w, t, env) ==
  IF w.threads[t].status # "open" THEN w
  ELSE IF w.threads[t].msgs # <<>> THEN w
  ELSE AddMessage(w, t, "out", project_opener("Sveiki", SEED_CITY, SEED_SPECIALTY, env.o))

\* POST /admin/open_chats, for one selected row
admin_open_chats(w, phone, env) ==
  LET seeded(gt) ==
        IF gt.w.threads[gt.t].msgs = <<>>
        THEN AddMessage(gt.w, gt.t, "out",
                        project_opener("Sveiki", SEED_CITY, SEED_SPECIALTY, env.o))
        ELSE gt.w
  IN  seeded(admin_get_or_create_thread(w, phone))

\* GET /admin/chat
chat_page(w, phone, env) ==
  LET page(gt) == _ensure_opener_if_empty(gt.w, gt.t, env)
  IN  page(chat_get_or_create_thread(w, phone))

\* the literal of chat.py line 381, as its bytes read
CHAT_ERROR_REPLY ==
  Text(<<"<chat.py:381 Atsiprasau, ivyko klaida.>", "<chat.py:381 Bandykite dar karta.>">>)

\* POST /chat/send with a text that is not blank; nothing is sent
chat_send(w, phone, user, env) ==
  LET gt == chat_get_or_create_thread(w, phone)
      t  == gt.t
      w1 == AddMessage(gt.w, t, "in", user)
      h  == _thread_history(w1, phone, HISTORY_LIMIT)
      answered(w2, reply) ==
        IF chat_is_close_text(reply) THEN chat_finalize_thread_once(w2, t, phone, user, env)
        ELSE w2
      say(reply) == answered(AddMessage(w1, t, "out", reply), reply)
      got(r0) == say(IF TextLen(r0) = 0 THEN CHAT_ERROR_REPLY ELSE r0)
  IN  IF dnc_phrase_in(user, env.dnc_list)
      THEN chat_finalize_thread_once(w1, t, phone, user, env)
      ELSE IF chat_assistant_closed_history(w1, t) /\ chat_POSTCLOSE_ACK_RE(lower(user))
      THEN chat_finalize_thread_once(w1, t, phone, user, env)
      ELSE IF \/ classify_thread_outcome(History(w1.threads[t].msgs)).outcome
                   = "not_interested"
              \/ chat_assistant_closed_history(w1, t)
      THEN chat_finalize_thread_once(w1, t, phone, user, env)
      ELSE IF generate_reply_lt_raises(h, user, env.io) THEN w1
      ELSE got(generate_reply_lt(h, user, env.io))

\* POST /chat/reset up to the end of its finalize step
chat_reset(w, phone, env) ==
  LET found(gt) ==
        Result(chat_finalize_thread_once(gt.w, gt.t, phone,
                                         LastBody(gt.w.threads[gt.t].msgs, "in"), env),
               <<>>,
               <<Pending("chat_reset", phone, gt.t, NoText, NoText, None, FALSE)>>)
  IN  found(chat_get_or_create_thread(w, phone))

\* POST /chat/reset from "now wipe and re-open": the messages of the thread
\* are deleted, its status is set to open, the opener is seeded
chat_reset_resume(w, c, env) ==
  _ensure_opener_if_empty([w EXCEPT !.threads[c.t].msgs = <<>>,
                                    !.threads[c.t].status = "open"],
                          c.t, env)
(***************************************************************************)
(* What the environment supplies.                                         *)
(***************************************************************************)
NoObj ==
  [job_interest |-> None, future_interest |-> None, intent |-> None, years |-> -1,
   availability_text |-> None, asked_salary |-> FALSE, phone_only_topics |-> {},
   busy_until |-> None, hesitant |-> FALSE, age_question |-> FALSE, age_value |-> -1,
   trolling |-> FALSE]

PROMPT_INFO == Text(<<"PROMPT_SHA MODEL">>)

LONG_TEXT == Text(<<"Supratau.", "<a filler sentence of 202 characters>">>)

IO(a_ok, obj, g_ok, text) ==
  [a_ok |-> a_ok, obj |-> obj, g_ok |-> g_ok, sms |-> text, prompt_info |-> PROMPT_INFO]

Env(io, k, sink, o) == [io |-> io, k |-> k, sink |-> sink, o |-> o, dnc_list |-> {}]

\* the runs of the language model and of the sheet that the handlers meet
Envs ==
  { \* the model answers but tells nothing; the generator asks a question
    Env(IO(TRUE, NoObj, TRUE, Text(<<"Supratau.", "Kiek metu patirties turite kaip elektrikas?">>)),
        [a_ok |-> TRUE, obj |-> NoObj], TRUE, [ok |-> FALSE, text |-> NoText]),
    \* the model and the sheet are down
    Env(IO(FALSE, NoObj, FALSE, NoText),
        [a_ok |-> FALSE, obj |-> NoObj], FALSE, [ok |-> FALSE, text |-> NoText]),
    \* the analyzer reads a refusal
    Env(IO(TRUE, [NoObj EXCEPT !.job_interest = "no", !.future_interest = "no",
                               !.intent = "decline"], TRUE, NoText),
        [a_ok |-> TRUE, obj |-> [NoObj EXCEPT !.future_interest = "no"]], TRUE,
        [ok |-> TRUE, text |-> Text(<<"Sveiki!", "Ar dirbate siuo metu?">>)]),
    \* the analyzer reads a refusal that says nothing about the future
    Env(IO(TRUE, [NoObj EXCEPT !.job_interest = "no", !.intent = "decline"], TRUE, NoText),
        [a_ok |-> TRUE, obj |-> NoObj], TRUE, [ok |-> FALSE, text |-> NoText]),
    \* the analyzer reads interest and five years of experience
    Env(IO(TRUE, [NoObj EXCEPT !.job_interest = "yes", !.years = 5], TRUE, NoText),
        [a_ok |-> TRUE, obj |-> [NoObj EXCEPT !.future_interest = "yes"]], TRUE,
        [ok |-> FALSE, text |-> NoText]),
    \* the model is wordy
    Env(IO(TRUE, NoObj, TRUE, LONG_TEXT),
        [a_ok |-> TRUE, obj |-> NoObj], TRUE, [ok |-> TRUE, text |-> LONG_TEXT]),
    \* the deployment sets DNC_PHRASES=stop
    [Env(IO(TRUE, NoObj, TRUE, NoText),
         [a_ok |-> TRUE, obj |-> NoObj], TRUE, [ok |-> FALSE, text |-> NoText])
       EXCEPT !.dnc_list = {"DNC_PHRASES stop"}] }

UserTexts ==
  { Text(<<"stop">>), Text(<<"aciu">>), Text(<<"taip, domina">>), Text(<<"nedomina">>),
    Text(<<"gal ateityje">>), Text(<<"labas">>), Text(<<"eik nx">>) }

\* what an operator sends through /send and what the matches file holds as
\* sms_text
OutboundTexts == { OpenerFallback(SEED_CITY, SEED_SPECIALTY) }

(***************************************************************************)
(* The state machine.                                                     *)
(***************************************************************************)
\* arg and res hold the input and the result of a function that is run on
\* its own; the handlers leave them alone
NoArg == [kind |-> "none"]

NoKpis == [interested |-> None, future_interest |-> None, years |-> -1]

NoCloses == [main |-> FALSE, chat |-> FALSE, planner |-> FALSE]

NoSlots == [years |-> -1, availability |-> None]

NoRes ==
  [op |-> "none", raised |-> FALSE, text |-> NoText, kpis |-> NoKpis, closes |-> NoCloses,
   slots |-> NoSlots]

\* lastOp tells which handler ran last, for which phone and text, how far it
\* got ("await": suspended in provider.send; "end": returned without being
\* suspended; "resumed": returned after provider.send), and what it has handed
\* to the provider
Op(op, phone, text, stage, sent) ==
  [op |-> op, phone |-> phone, text |-> text, stage |-> stage, sent |-> sent]

Init ==
  /\ lexicon = Lexicon
  /\ contacts = [p \in Phones |-> Contact]
  /\ threads = <<>>
  /\ sms = <<>>
  /\ kpis = <<>>
  /\ inflight = <<>>
  /\ steps = 0
  /\ lastOp = Op("none", None, NoText, "end", <<>>)
  /\ arg = NoArg
  /\ res = NoRes

\* SQLite: the rows that /send flushed keep the database locked for writing
\* until /send commits
Locked == \E i \in 1..Len(inflight) : inflight[i].op = "send" /\ inflight[i].flushed

Remove(s, i) == SubSeq(s, 1, i - 1) \o SubSeq(s, i + 1, Len(s))

Commit(w) ==
  /\ contacts' = w.contacts
  /\ threads' = w.threads
  /\ kpis' = w.kpis

\* a handler runs up to its first suspension, or to its return
Start(r, op, phone, text) ==
  /\ ~Locked
  /\ Commit(r.w)
  /\ sms' = sms \o r.out
  /\ inflight' = inflight \o r.cont
  /\ steps' = steps + 1
  /\ lastOp' = Op(op, phone, text, IF r.cont = <<>> THEN "end" ELSE "await", r.out)
  /\ UNCHANGED <<lexicon, arg, res>>

\* a handler starts
Begin(r, op, phone, text) == steps < MaxSteps /\ Start(r, op, phone, text)

\* the suspended handler inflight[i] goes on to its end
Resume(w, i) ==
  /\ Commit(w)
  /\ inflight' = Remove(inflight, i)
  /\ lastOp' = Op(inflight[i].op, inflight[i].phone, inflight[i].text, "resumed",
                  IF inflight[i].op = "chat_reset" THEN <<>>
                  ELSE <<SMS(inflight[i].phone, inflight[i].reply, inflight[i].userref)>>)
  /\ UNCHANGED <<lexicon, sms, steps, arg, res>>

MoBegin ==
  \E p \in Phones, text \in UserTexts, env \in Envs :
     Begin(mo(World, p, text, env), "mo", p, text)

MoFinish ==
  \E i \in 1..Len(inflight), env \in Envs :
     /\ inflight[i].op = "mo"
     /\ ~Locked
     /\ Resume(mo_resume(World, inflight[i], env), i)

\* the poller handles one item at a time
PollBegin ==
  \E p \in Phones, text \in UserTexts, env \in Envs :
     /\ \A i \in 1..Len(inflight) : inflight[i].op # "poll"
     /\ Begin(_process_inbound_item(World, p, text, env), "poll", p, text)

PollFinish ==
  \E i \in 1..Len(inflight), env \in Envs :
     /\ inflight[i].op = "poll"
     /\ ~Locked
     /\ Resume(_process_inbound_item_resume(World, inflight[i], env), i)

SendBegin ==
  \E p \in Phones, body \in OutboundTexts :
     /\ send_allowed(World, p)
     /\ Begin(send(World, p, body, "opener"), "send", p, body)

SendFinish ==
  \E i \in 1..Len(inflight) :
     /\ inflight[i].op = "send"
     /\ Resume(send_resume(World, inflight[i]), i)

AdminSend ==
  \E p \in Phones, text \in OutboundTexts :
     /\ steps < MaxSteps
     /\ sms' = sms \o admin_send(World, p, text).out
     /\ steps' = steps + 1
     /\ lastOp' = Op("admin_send", p, text, "end", admin_send(World, p, text).out)
     /\ UNCHANGED <<lexicon, contacts, threads, kpis, inflight, arg, res>>

AdminOpenChats ==
  \E p \in Phones, env \in Envs :
     Begin(Result(admin_open_chats(World, p, env), <<>>, <<>>), "admin_open_chats", p, NoText)

ChatPage ==
  \E p \in Phones, env \in Envs :
     Begin(Result(chat_page(World, p, env), <<>>, <<>>), "chat_page", p, NoText)

ChatSend ==
  \E p \in Phones, text \in UserTexts, env \in Envs :
     Begin(Result(chat_send(World, p, text, env), <<>>, <<>>), "chat_send", p, text)

ChatResetBegin ==
  \E p \in Phones, env \in Envs :
     Begin(chat_reset(World, p, env), "chat_reset", p, NoText)

ChatResetFinish ==
  \E i \in 1..Len(inflight), env \in Envs :
     /\ inflight[i].op = "chat_reset"
     /\ ~Locked
     /\ Resume(chat_reset_resume(World, inflight[i], env), i)

Next ==
  \/ MoBegin \/ MoFinish
  \/ PollBegin \/ PollFinish
  \/ SendBegin \/ SendFinish
  \/ AdminSend
  \/ AdminOpenChats
  \/ ChatPage \/ ChatSend
  \/ ChatResetBegin \/ ChatResetFinish

Spec == Init /\ [][Next]_vars


(***************************************************************************)
(* The functions on their own.  Init draws an input; an action applies    *)
(* the function to it and keeps what it returns.  _finalize_thread_once   *)
(* is applied, as often as MaxSteps allows, to the one thread of a world  *)
(* that Init draws.                                                       *)
(***************************************************************************)
MaxHistory == 2

PureUserTexts ==
  { Text(<<"stop">>), Text(<<"aciu">>), Text(<<"taip, domina">>), Text(<<"nedomina">>),
    Text(<<"ne, dabar neaktualu">>), Text(<<"gal ateityje">>), Text(<<"koks atlyginimas?">>),
    Text(<<"5 metai">>), Text(<<"labas">>), Text(<<"!prompt">>), Text(<<"ar jus bot">>),
    Text(<<"nuo pirmadienio">>), Text(<<"paskambinkit">>), Text(<<"paskambinkit veliau">>),
    Text(<<"ok, eik nx">>), Text(<<"stop, paskambinkit">>), Text(<<"taip">>), Text(<<"ne">>),
    Text(<<"gerai, o koks atlyginimas?">>) }

AssistantTexts ==
  { CLOSE_TX, HUMAN_CLOSE, TROLL_CLOSE, DNC_CLOSE, FUTURE_CLOSE, FUTURE_PROBE,
    OpenerFallback(SEED_CITY, SEED_SPECIALTY), YearsQuestion("elektrikas") }

\* what the earlier turns of a history say
HistoryUserTexts ==
  { Text(<<"stop">>), Text(<<"taip, domina">>), Text(<<"nedomina">>),
    Text(<<"gal ateityje">>), Text(<<"koks atlyginimas?">>), Text(<<"5 metai">>),
    Text(<<"gerai, o koks atlyginimas?">>) }

Turns ==
  [role : {"user"}, content : HistoryUserTexts] \cup
  [role : {"assistant"}, content : AssistantTexts]

Histories == UNION {[1..n -> Turns] : n \in 0..MaxHistory}

\* what the two model calls of generate_reply_lt return, and the build's
\* "PROMPT_SHA MODEL"
PureIOs ==
  { IO(TRUE, NoObj, TRUE, Text(<<"Supratau.", "Kiek metu patirties turite kaip elektrikas?">>)),
    IO(FALSE, NoObj, FALSE, NoText),
    IO(TRUE, NoObj, FALSE, NoText),
    IO(TRUE, [NoObj EXCEPT !.job_interest = "no", !.future_interest = "unknown",
                           !.intent = "decline"], TRUE, NoText),
    IO(TRUE, [NoObj EXCEPT !.job_interest = "yes", !.years = 5], TRUE, NoText),
    IO(TRUE, [NoObj EXCEPT !.intent = "identity_question"], TRUE, NoText),
    IO(TRUE, NoObj, TRUE, LONG_TEXT),
    \* the generator asks for the availability, in its own spacing too
    IO(TRUE, NoObj, TRUE, Text(<<"Supratau.">> \o AVAILABILITY_Q.s)),
    IO(TRUE, NoObj, TRUE, Text(<<"Supratau.", "Nuo kada galetumete  pradeti?">>)),
    \* the generator asks two questions
    IO(TRUE, NoObj, TRUE, Text(<<"Ar dirbate siuo metu?", "Ar domina?">>)),
    [IO(TRUE, NoObj, TRUE, NoText) EXCEPT
       !.prompt_info = Text(<<"PROMPT_SHA <a model name of 190 characters>">>)] }

\* what the analyzer call of summarize_thread_kpis returns
PureKs ==
  { [a_ok |-> FALSE, obj |-> NoObj] } \cup
  { [a_ok |-> TRUE, obj |-> [NoObj EXCEPT !.future_interest = f]] :
      f \in {None, "yes", "no", "unsure"} }

PureOpeners ==
  { [ok |-> FALSE, text |-> NoText],
    [ok |-> TRUE, text |-> Text(<<"Sveiki!", "Ar dirbate siuo metu?">>)],
    [ok |-> TRUE, text |-> Text(<<"Sveiki, Sveiki, dekojame uz atsakyma.">>)],
    [ok |-> TRUE, text |-> Text(<<"Ar dirbate siuo metu?", "Ar domina?">>)],
    [ok |-> TRUE, text |-> LONG_TEXT] }

\* the messages of the thread that _finalize_thread_once is given
PureThreads ==
  { <<>>,
    <<Message("in", Text(<<"nedomina">>))>>,
    <<Message("in", Text(<<"stop">>)), Message("out", DNC_CLOSE)>>,
    <<Message("out", OpenerFallback(SEED_CITY, SEED_SPECIALTY)),
      Message("in", Text(<<"taip, domina">>)), Message("out", HUMAN_CLOSE)>> }

\* what the close detectors are given: the closing templates and the other
\* texts that the handlers send
DetectorTexts ==
  AssistantTexts \cup {CALL_CLOSE, WRONG_CLOSE, DNC_GOODBYE, LT_ONLY, AVAILABILITY_Q}

\* the messages that the close rules and the branches of generate_reply_lt
\* hand to _close_and_return
ClosingMessages == {CLOSE_RULES[k].msg : k \in 1..Len(CLOSE_RULES)}

\* the histories that _inferred_slots is given: the two slot questions and
\* answers that parse as years, as availability, or as neither
MaxSlotHistory == 4

SlotTurns ==
  [role : {"assistant"}, content : {YearsQuestion("elektrikas"), AVAILABILITY_Q}] \cup
  [role : {"user"},
   content : {Text(<<"5 metai">>), Text(<<"nuo pirmadienio">>), Text(<<"labas">>)}]

SlotHistories == UNION {[1..n -> SlotTurns] : n \in 0..MaxSlotHistory}

PureInputs ==
  [kind : {"generate_reply_lt"}, history : Histories, text : PureUserTexts \cup {NoText},
   io : PureIOs] \cup
  [kind : {"project_opener"}, city : {"", SEED_CITY}, specialty : {"", SEED_SPECIALTY},
   o : PureOpeners] \cup
  [kind : {"summarize_thread_kpis"}, history : Histories,
   last_user_text : {NoText, Text(<<"taip, domina">>), Text(<<"gal ateityje">>)},
   k : PureKs] \cup
  [kind : {"close detectors"}, text : DetectorTexts] \cup
  [kind : {"_inferred_slots"}, history : SlotHistories] \cup
  [kind : {"_close_and_return"}, msg : ClosingMessages, history : Histories] \cup
  [kind : {"_finalize_thread_once"}, copy : {"main.py", "chat.py"},
   status : {"open", "closed"}, msgs : PureThreads,
   last_user_text : {NoText, Text(<<"stop">>)}, env : Envs]

PureInit ==
  /\ lexicon = Lexicon
  /\ arg \in PureInputs
  /\ res = NoRes
  /\ contacts = [p \in Phones |-> [exists |-> TRUE, dnc |-> FALSE]]
  /\ threads = IF arg.kind = "_finalize_thread_once"
               THEN <<[phone |-> "p1", status |-> arg.status, msgs |-> arg.msgs]>>
               ELSE <<>>
  /\ sms = <<>>
  /\ kpis = <<>>
  /\ inflight = <<>>
  /\ steps = 0
  /\ lastOp = Op("none", None, NoText, "end", <<>>)

GenerateReply ==
  /\ arg.kind = "generate_reply_lt"
  /\ res.op = "none"
  /\ res' = IF generate_reply_lt_raises(arg.history, arg.text, arg.io)
            THEN [NoRes EXCEPT !.op = "generate_reply_lt", !.raised = TRUE]
            ELSE [NoRes EXCEPT !.op = "generate_reply_lt",
                               !.text = generate_reply_lt(arg.history, arg.text, arg.io)]
  /\ UNCHANGED <<lexicon, contacts, threads, sms, kpis, inflight, steps, lastOp, arg>>

ProjectOpener ==
  /\ arg.kind = "project_opener"
  /\ res.op = "none"
  /\ res' = [NoRes EXCEPT !.op = "project_opener",
                          !.text = project_opener("", arg.city, arg.specialty, arg.o)]
  /\ UNCHANGED <<lexicon, contacts, threads, sms, kpis, inflight, steps, lastOp, arg>>

Summarize ==
  /\ arg.kind = "summarize_thread_kpis"
  /\ res.op = "none"
  /\ res' = [NoRes EXCEPT !.op = "summarize_thread_kpis",
                          !.kpis = summarize_thread_kpis(arg.history, arg.last_user_text,
                                                         arg.k)]
  /\ UNCHANGED <<lexicon, contacts, threads, sms, kpis, inflight, steps, lastOp, arg>>

\* the close detectors of the handlers (main.py, chat.py) and of the reply
\* planner, on one outbound text
CloseDetectors ==
  /\ arg.kind = "close detectors"
  /\ res.op = "none"
  /\ res' = [NoRes EXCEPT !.op = "close detectors",
                          !.closes = [main |-> _is_close_text(arg.text),
                                      chat |-> chat_is_close_text(arg.text),
                                      planner |-> _assistant_last_was_close(
                                                    <<[role |-> "assistant",
                                                       content |-> arg.text]>>)]]
  /\ UNCHANGED <<lexicon, contacts, threads, sms, kpis, inflight, steps, lastOp, arg>>

InferredSlots ==
  /\ arg.kind = "_inferred_slots"
  /\ res.op = "none"
  /\ res' = [NoRes EXCEPT !.op = "_inferred_slots", !.slots = _inferred_slots(arg.history)]
  /\ UNCHANGED <<lexicon, contacts, threads, sms, kpis, inflight, steps, lastOp, arg>>

\* _close_and_return on a closing message
CloseAndReturn ==
  /\ arg.kind = "_close_and_return"
  /\ res.op = "none"
  /\ res' = [NoRes EXCEPT !.op = "_close_and_return",
                          !.text = _close_and_return(arg.msg, arg.history,
                                                     _extract_opener_specialty(arg.history))]
  /\ UNCHANGED <<lexicon, contacts, threads, sms, kpis, inflight, steps, lastOp, arg>>

Finalize ==
  /\ arg.kind = "_finalize_thread_once"
  /\ arg.copy = "main.py"
  /\ steps < MaxSteps
  /\ Commit(_finalize_thread_once(World, 1, "p1", arg.last_user_text, arg.env))
  /\ steps' = steps + 1
  /\ UNCHANGED <<lexicon, sms, inflight, lastOp, arg, res>>

ChatFinalize ==
  /\ arg.kind = "_finalize_thread_once"
  /\ arg.copy = "chat.py"
  /\ steps < MaxSteps
  /\ Commit(chat_finalize_thread_once(World, 1, "p1", arg.last_user_text, arg.env))
  /\ steps' = steps + 1
  /\ UNCHANGED <<lexicon, sms, inflight, lastOp, arg, res>>

PureNext ==
  \/ GenerateReply \/ ProjectOpener \/ Summarize \/ CloseDetectors \/ CloseAndReturn
  \/ InferredSlots
  \/ Finalize \/ ChatFinalize

PureSpec == PureInit /\ [][PureNext]_vars

(***************************************************************************)
(* One conversation.  The opener has been sent to the phone through /send *)
(* and stored; the inbound messages then reach the webhook one after the  *)
(* other, each handled to its end before the next arrives.  steps counts  *)
(* the inbound messages.                                                  *)
(***************************************************************************)
MaxTurns == 3

ConvTexts ==
  { Text(<<"taip, domina">>), Text(<<"5 metai">>), Text(<<"nuo pirmadienio">>),
    Text(<<"ne, dabar neaktualu">>), Text(<<"gal ateityje">>), Text(<<"paskambinkit">>),
    Text(<<"nedomina">>) }

\* the runs of the language model that a conversation meets: those of Envs,
\* and an analyzer that reads a refusal and nothing about the future
ConvEnvs ==
  Envs \cup
  { Env(IO(TRUE, [NoObj EXCEPT !.job_interest = "no", !.intent = "decline"], TRUE, NoText),
        [a_ok |-> TRUE, obj |-> NoObj], TRUE, [ok |-> FALSE, text |-> NoText]) }

OPENER == OpenerFallback(SEED_CITY, SEED_SPECIALTY)

\* the state that /send leaves when it has sent and stored the opener
ConvInit ==
  /\ lexicon = Lexicon
  /\ contacts = [p \in Phones |-> [exists |-> TRUE, dnc |-> FALSE]]
  /\ threads = <<[phone |-> "p1", status |-> "open", msgs |-> <<Message("out", OPENER)>>]>>
  /\ sms = <<SMS("p1", OPENER, "opener")>>
  /\ kpis = <<>>
  /\ inflight = <<>>
  /\ steps = 0
  /\ lastOp = Op("send", "p1", OPENER, "resumed", <<SMS("p1", OPENER, "opener")>>)
  /\ arg = NoArg
  /\ res = NoRes

\* the next inbound message reaches the webhook
ConvMoBegin ==
  \E text \in ConvTexts, env \in ConvEnvs :
     /\ steps < MaxTurns
     /\ inflight = <<>>
     /\ Start(mo(World, "p1", text, env), "mo", "p1", text)

\* provider.send returns and the handler goes on to its end
ConvMoFinish ==
  \E i \in 1..Len(inflight), env \in ConvEnvs :
     /\ inflight[i].op = "mo"
     /\ Resume(mo_resume(World, inflight[i], env), i)

ConvNext == ConvMoBegin \/ ConvMoFinish

ConvSpec == ConvInit /\ [][ConvNext]_vars
(***************************************************************************)
(* The Infobip poller on its own: each round pulls a batch and hands its   *)
(* items to _process_inbound_item one after the other.  arg holds the      *)
(* loop's locals: the items of the batch that the for loop has not reached *)
(* yet, and, for the record, the ids of the items pulled and of the items  *)
(* handed to _process_inbound_item so far.  The provider returns each item *)
(* once.                                                                   *)
(***************************************************************************)
MaxPulls == 2

MaxBatch == 2

PollerTexts == { Text(<<"labas">>), Text(<<"taip, domina">>) }

\* the language model answers, or is down
PollerEnvs ==
  { Env(IO(TRUE, NoObj, TRUE, Text(<<"Supratau.", "Kiek metu patirties turite kaip elektrikas?">>)),
        [a_ok |-> TRUE, obj |-> NoObj], TRUE, [ok |-> FALSE, text |-> NoText]),
    Env(IO(FALSE, NoObj, FALSE, NoText),
        [a_ok |-> FALSE, obj |-> NoObj], FALSE, [ok |-> FALSE, text |-> NoText]) }

PollerLocals(items, pulled, handled) ==
  [kind |-> "_infobip_poller", items |-> items, pulled |-> pulled, handled |-> handled]

PollerInit ==
  /\ lexicon = Lexicon
  /\ contacts = [p \in Phones |-> Contact]
  /\ threads = <<>>
  /\ sms = <<>>
  /\ kpis = <<>>
  /\ inflight = <<>>
  /\ steps = 0
  /\ lastOp = Op("none", None, NoText, "end", <<>>)
  /\ arg = PollerLocals(<<>>, {}, {})
  /\ res = NoRes

\* generate_reply_lt is reached and raises: _process_inbound_item has a
\* try/finally and no except, so the exception leaves it
_process_inbound_item_raises(w, from_, text, env) ==
  LET lt == _latest_thread(w, from_)
      ct == _ensure_contact_thread(w, from_)
      w1 == AddMessage(ct.w, ct.t, "in", text)
  IN  /\ text.s # <<>>
      /\ ~(lt # 0 /\ _assistant_closed_history(w, lt) /\ _POSTCLOSE_ACK_RE(lower(text)))
      /\ ~w1.contacts[from_].dnc
      /\ classify_thread_outcome(History(w1.threads[ct.t].msgs)).outcome # "not_interested"
      /\ generate_reply_lt_raises(_thread_history(w1, from_, HISTORY_LIMIT), text, env.io)

\* items, _raw = _infobip.fetch_inbound(limit=100)
PollerPull ==
  /\ arg.items = <<>>
  /\ inflight = <<>>
  /\ steps < MaxPulls
  /\ \E n \in 0..MaxBatch :
       \E from_ \in [1..n -> Phones], text \in [1..n -> PollerTexts] :
          arg' = [arg EXCEPT
                    !.items = [i \in 1..n |-> [id |-> Cardinality(arg.pulled) + i,
                                               from |-> from_[i], text |-> text[i]]],
                    !.pulled = @ \cup {Cardinality(arg.pulled) + i : i \in 1..n}]
  /\ steps' = steps + 1
  /\ UNCHANGED <<lexicon, contacts, threads, sms, kpis, inflight, lastOp, res>>

\* for it in items: await _process_inbound_item(it), up to provider.send or
\* to its end; an exception leaves the for loop for the except of the round
PollerItemBegin ==
  /\ arg.items # <<>>
  /\ inflight = <<>>
  /\ \E env \in PollerEnvs :
       LET it == Head(arg.items)
           r  == _process_inbound_item(World, it.from, it.text, env)
       IN  /\ Commit(r.w)
           /\ sms' = sms \o r.out
           /\ inflight' = r.cont
           /\ lastOp' = Op("poll", it.from, it.text,
                           IF r.cont = <<>> THEN "end" ELSE "await", r.out)
           /\ arg' = [arg EXCEPT
                        !.handled = @ \cup {it.id},
                        !.items = IF _process_inbound_item_raises(World, it.from, it.text, env)
                                  THEN <<>> ELSE Tail(@)]
  /\ UNCHANGED <<lexicon, steps, res>>

PollerItemFinish ==
  \E env \in PollerEnvs :
     /\ inflight # <<>>
     /\ Resume(_process_inbound_item_resume(World, inflight[1], env), 1)

PollerNext == PollerPull \/ PollerItemBegin \/ PollerItemFinish

PollerSpec == PollerInit /\ [][PollerNext]_vars


(***************************************************************************)
(* Properties.  Those about a function on its own are stated over         *)
(* PureSpec, the others over Spec.                                        *)
(***************************************************************************)
\* the closing templates of llm copy.py lines 15-21
CANONICAL_CLOSES == {CLOSE_TX, HUMAN_CLOSE, TROLL_CLOSE, DNC_CLOSE, FUTURE_CLOSE}

Inbound == {"mo", "poll"}

\* the outbound messages of a thread, oldest first
Outbound(msgs) == SelectSeq(msgs, LAMBDA m : m.dir = "out")

\* the latest thread of the phone exists and its last outbound message is a
\* closing template
ClosedByTemplate(p) ==
  /\ _latest_thread(World, p) # 0
  /\ LastBody(threads[_latest_thread(World, p)].msgs, "out") \in CANONICAL_CLOSES

\* the step is the start of an inbound handler for the phone
InboundStep(p) ==
  /\ steps' = steps + 1
  /\ lastOp'.op \in Inbound
  /\ lastOp'.phone = p

\* the handler that ran last is an inbound one and has returned
InboundDone == lastOp.op \in Inbound /\ lastOp.stage \in {"end", "resumed"}

Finalizing == arg.kind = "_finalize_thread_once"

\* C1, as stated: after _finalize_thread_once has been invoked twice in
\* succession on a thread, exactly one ThreadKPIs record is written and the
\* thread is closed.
C1_two_finalizes_write_one_record ==
  Finalizing /\ steps >= 2 => Len(kpis) = 1 /\ threads[1].status = "closed"

\* C1, amended: after _finalize_thread_once has been invoked on a thread, the
\* thread is closed and the sheet holds one record if the thread was open and
\* the sheet took the row, none otherwise; every invocation after the first
\* changes no state and writes nothing.
C1_finalize_idempotent ==
  /\ [](Finalizing /\ steps >= 1 =>
          /\ threads[1].status = "closed"
          /\ Len(kpis) = IF arg.status = "open" /\ arg.env.sink THEN 1 ELSE 0)
  /\ [][Finalizing /\ steps >= 1 => UNCHANGED <<contacts, threads, kpis, sms>>]_vars

\* an open thread has been finalized twice and the sheet holds its one record
C1_witness ==
  /\ Finalizing
  /\ steps = 2
  /\ arg.status = "open"
  /\ arg.env.sink
  /\ Len(kpis) = 1
  /\ threads[1].status = "closed"

\* C2: once the last outbound message of a phone's thread is a closing
\* template, an inbound message from that phone handled by the webhook or the
\* poller sends no SMS, stores no outbound message, changes no thread's status
\* and opens no thread.
C2_post_close_silence ==
  [][\A p \in Phones :
       ClosedByTemplate(p) /\ InboundStep(p) =>
         /\ sms' = sms
         /\ Len(threads') = Len(threads)
         /\ \A i \in 1..Len(threads) :
               /\ threads'[i].status = threads[i].status
               /\ Outbound(threads'[i].msgs) = Outbound(threads[i].msgs)]_vars

\* C3: an inbound handler that has returned from a message with an opt-out
\* phrase has set the contact's dnc flag, and what it has sent is the DNC
\* closing template and nothing else (no probe).
C3_hard_stop_priority ==
  InboundDone /\ _is_hard_stop(lastOp.text) =>
    /\ contacts[lastOp.phone].dnc
    /\ \A j \in 1..Len(lastOp.sent) : lastOp.sent[j].body = DNC_CLOSE

\* C4: the last outbound message of every closed thread is a closing template,
\* and so is every goodbye and every closing line handed to the provider.
C4_closing_messages_canonical ==
  /\ \A i \in 1..Len(threads) :
        threads[i].status = "closed" =>
          LastBody(threads[i].msgs, "out") \in CANONICAL_CLOSES
  /\ \A j \in 1..Len(sms) :
        sms[j].userref = "dnc-goodbye" \/ _is_close_text(sms[j].body) =>
          sms[j].body \in CANONICAL_CLOSES

\* C5: for a history whose last assistant message is the DNC, the future or
\* the human closing template, summarize_thread_kpis returns (no, no),
\* (yes, yes) and (yes, no), whatever the earlier messages, the last user text
\* and the analyzer.
C5_close_recoverability ==
  res.op = "summarize_thread_kpis" =>
    /\ _last_assistant_text(arg.history) = DNC_CLOSE =>
         res.kpis.interested = "no" /\ res.kpis.future_interest = "no"
    /\ _last_assistant_text(arg.history) = FUTURE_CLOSE =>
         res.kpis.interested = "yes" /\ res.kpis.future_interest = "yes"
    /\ _last_assistant_text(arg.history) = HUMAN_CLOSE =>
         res.kpis.interested = "yes" /\ res.kpis.future_interest = "no"

\* C6: when an inbound handler has returned and nothing is suspended, handling
\* the same text from the same phone again sends no further SMS if the first
\* handling sent one, and writes no KPI record if the sheet has one for the
\* phone.
C6_duplicate_delivery_noop ==
  [][\A p \in Phones :
       /\ InboundDone
       /\ inflight = <<>>
       /\ InboundStep(p)
       /\ lastOp.phone = p
       /\ lastOp'.text = lastOp.text
       => /\ lastOp.sent # <<>> => sms' = sms
          /\ (\E j \in 1..Len(kpis) : kpis[j].phone = p) => kpis' = kpis]_vars

\* C7: no phone has two open threads.
C7_one_open_thread_per_phone ==
  \A p \in Phones : Cardinality(OpenThreadsOf(World, p)) <= 1

\* C8: no step takes a thread from closed to open (so a thread goes from open
\* to closed at most once).
C8_closed_absorbing ==
  [][\A i \in 1..Len(threads) :
       threads[i].status = "closed" => threads'[i].status = "closed"]_vars

\* C9: once a contact's dnc flag is set it stays set, and no step hands an SMS
\* for that phone to the provider.
C9_dnc_suppresses_outreach ==
  [][\A p \in Phones :
       contacts[p].dnc =>
         /\ contacts'[p].dnc
         /\ \A j \in (Len(sms) + 1)..Len(sms') : sms'[j].to # p]_vars

\* C10: what generate_reply_lt and project_opener return has at most 160
\* characters.
C10_length_invariant ==
  res.op \in {"generate_reply_lt", "project_opener"} /\ ~res.raised =>
    TextLen(res.text) <= 160

\* generate_reply_lt was given a reply of more than 160 characters by the
\* model and has returned it cut, with the ellipsis
C10_witness ==
  /\ res.op = "generate_reply_lt"
  /\ arg.io.sms = LONG_TEXT
  /\ res.text.ell
  /\ TextLen(res.text) = 158

(***************************************************************************)
(* Properties of the conversation: slots, scenarios, failures,            *)
(* concurrency, close rules.                                              *)
(***************************************************************************)
\* generate_reply_lt was called as the handlers call it: the inbound text is
\* the last message of the history
AsInTurn ==
  /\ res.op = "generate_reply_lt"
  /\ arg.history # <<>>
  /\ arg.history[Len(arg.history)] = [role |-> "user", content |-> arg.text]

\* the history holds the slot's question followed by an answer that parses
SlotAnswered(history, which) ==
  \E i \in 1..(Len(history) - 1) :
     /\ history[i].role = "assistant"
     /\ _asked_which_slot(history[i].content) = which
     /\ history[i + 1].role = "user"
     /\ IF which = "years"
        THEN /\ _parse_experience_years(history[i + 1].content) # -1
             /\ ~In("AGE_VAL_PAT", raw(history[i + 1].content))
        ELSE _extract_availability(history[i + 1].content) # None

\* the text asks the slot's question
Asks(text, which) ==
  IF which = "years" THEN In("kiek metu patirties", lower(text))
  ELSE \/ In("nuo kada galetumete pradeti", lower(text))
       \/ In("koks grafikas tinka", lower(text))

\* C11: when the history of the thread holds the years question (or the
\* availability question) followed by an answer that parses, the reply that
\* generate_reply_lt returns does not ask that question again.
C11_no_double_ask ==
  AsInTurn /\ ~res.raised =>
    \A which \in {"years", "availability"} :
       SlotAnswered(arg.history, which) => ~Asks(res.text, which)

\* the inbound messages stored in the threads 1..n, oldest first
RECURSIVE InboundsUpTo(_)
InboundsUpTo(n) ==
  IF n = 0 THEN <<>>
  ELSE InboundsUpTo(n - 1) \o
       [j \in 1..Len(SelectSeq(threads[n].msgs, LAMBDA m : m.dir = "in")) |->
          SelectSeq(threads[n].msgs, LAMBDA m : m.dir = "in")[j].body]

\* the conversation so far consists of these inbound messages, all handled
Handled(texts) ==
  /\ inflight = <<>>
  /\ steps = Len(texts)
  /\ InboundsUpTo(Len(threads)) = texts

HAPPY_PATH ==
  << Text(<<"taip, domina">>), Text(<<"5 metai">>), Text(<<"nuo pirmadienio">>) >>

\* C12: in a thread that holds only the opener, "taip, domina" is answered by
\* the years question, then "5 metai" by the availability question, then
\* "nuo pirmadienio" by the human closing template; the thread is then closed
\* and its KPI record says interested = yes, years = 5.
C12_happy_path ==
  /\ Handled(SubSeq(HAPPY_PATH, 1, 1)) =>
       Len(sms) = 2 /\ Asks(sms[2].body, "years")
  /\ Handled(SubSeq(HAPPY_PATH, 1, 2)) =>
       Len(sms) = 3 /\ Asks(sms[3].body, "availability")
  /\ Handled(HAPPY_PATH) =>
       /\ Len(sms) = 4
       /\ InTemplate("HUMAN_CLOSE", _norm(sms[4].body))
       /\ threads[1].status = "closed"
       /\ Len(kpis) = 1
       /\ kpis[1].interested = "yes"
       /\ kpis[1].years = 5

DECLINE_THEN_FUTURE == << Text(<<"ne, dabar neaktualu">>), Text(<<"gal ateityje">>) >>

\* the first reply of the conversation was answered by the future probe
ProbeAsked ==
  /\ Len(sms) >= 2
  /\ _assistant_future_probe_asked(<<[role |-> "assistant", content |-> sms[2].body]>>)

\* C13: in a thread that holds only the opener, when "ne, dabar neaktualu" has
\* been answered by the future probe (the language model reads a refusal),
\* the probe is the only reply and the thread is open; after "gal ateityje"
\* the future closing template has been sent, the thread is closed and its
\* KPI record says interested = yes, future_interest = yes.
C13_decline_with_future ==
  /\ Handled(SubSeq(DECLINE_THEN_FUTURE, 1, 1)) /\ ProbeAsked =>
       /\ Len(sms) = 2
       /\ threads[1].status = "open"
  /\ Handled(DECLINE_THEN_FUTURE) /\ ProbeAsked =>
       /\ Len(sms) = 3
       /\ InTemplate("FUTURE_CLOSE", _norm(sms[3].body))
       /\ Len(threads) = 1
       /\ threads[1].status = "closed"
       /\ Len(kpis) = 1
       /\ kpis[1].interested = "yes"
       /\ kpis[1].future_interest = "yes"

\* a call of the language model made by generate_reply_lt fails
ModelCallFails ==
  \/ ReachesAnalyze(arg.history, arg.text) /\ ~arg.io.a_ok
  \/ ReachesGenerate(arg.history, arg.text, arg.io) /\ ~arg.io.g_ok

\* C14: when the analyzer call or the generator call fails, generate_reply_lt
\* raises nothing and returns the question for the next missing slot (the
\* years, or the availability when the history holds the years).
C14_model_failure_fallback ==
  res.op = "generate_reply_lt" /\ ModelCallFails =>
    /\ ~res.raised
    /\ Asks(res.text, IF _inferred_slots(arg.history).years = -1
                      THEN "years" ELSE "availability")

SinkUp(env) == [env EXCEPT !.sink = TRUE]

SinkDown(env) == [env EXCEPT !.sink = FALSE]

\* two runs of a handler send the same, store the same, leave the same dnc
\* flags and thread statuses, and are suspended alike
SameFlow(r1, r2) ==
  /\ r1.out = r2.out
  /\ r1.cont = r2.cont
  /\ r1.w.contacts = r2.w.contacts
  /\ r1.w.threads = r2.w.threads

\* C15: wherever a handler can start, for every inbound message and every run
\* of the language model, the webhook and the poller send the same reply,
\* store the same messages and leave the same dnc flag and thread statuses
\* whether the sheet takes the rows or not; so does the rest of a suspended
\* handler.
C15_sink_failure_harmless ==
  /\ \A p \in Phones, text \in UserTexts, env \in Envs :
        steps < MaxSteps =>
        /\ SameFlow(mo(World, p, text, SinkUp(env)), mo(World, p, text, SinkDown(env)))
        /\ SameFlow(_process_inbound_item(World, p, text, SinkUp(env)),
                    _process_inbound_item(World, p, text, SinkDown(env)))
  /\ \A i \in 1..Len(inflight), env \in Envs :
        inflight[i].op \in Inbound =>
          /\ mo_resume(World, inflight[i], SinkUp(env)).threads
               = mo_resume(World, inflight[i], SinkDown(env)).threads
          /\ _process_inbound_item_resume(World, inflight[i], SinkUp(env)).contacts
               = _process_inbound_item_resume(World, inflight[i], SinkDown(env)).contacts
          /\ _process_inbound_item_resume(World, inflight[i], SinkUp(env)).threads
               = _process_inbound_item_resume(World, inflight[i], SinkDown(env)).threads

\* a handler has closed a thread and sent its reply while the sheet was down:
\* no KPI record, the rest as ever
C15_witness ==
  /\ InboundDone
  /\ lastOp.sent # <<>>
  /\ kpis = <<>>
  /\ \E i \in 1..Len(threads) : threads[i].status = "closed"

\* a webhook or poller turn of the phone is suspended in provider.send: its
\* reply is with the provider and not yet stored in the thread, which is the
\* thread that the next turn of the phone reads
TurnSuspended(p) ==
  \E i \in 1..Len(inflight) :
     /\ inflight[i].op \in Inbound
     /\ inflight[i].phone = p
     /\ inflight[i].t = OpenThread(World, p)

\* C16: no inbound turn of a phone computes and sends a reply while another
\* turn of that phone on the same thread is between sending its reply and
\* storing it.
C16_turns_serial ==
  [][\A p \in Phones :
       InboundStep(p) /\ lastOp'.sent # <<>> => ~TurnSuspended(p)]_vars

\* the suspended handler will finalize its thread: its reply reads as a
\* closing line
WillClose(c) == _is_close_text(c.reply)

\* C17: no two handlers are suspended with a closing message each sent for
\* the same thread (each about to finalize it), and the sheet holds at most one KPI record per thread.
C17_concurrent_close_safe ==
  /\ \A i, j \in 1..Len(inflight) :
        /\ i # j
        /\ inflight[i].op \in Inbound
        /\ inflight[j].op \in Inbound
        /\ inflight[i].t = inflight[j].t
        => ~(WillClose(inflight[i]) /\ WillClose(inflight[j]))
  /\ \A t \in 1..Len(threads) :
        Cardinality({k \in 1..Len(kpis) : kpis[k].thread_id = t}) <= 1

\* the closing templates that the claim names
CLOSE_TEMPLATES == {HUMAN_CLOSE, FUTURE_CLOSE, DNC_CLOSE, TROLL_CLOSE}

\* C18: _is_close_text of the handlers and _assistant_last_was_close of the
\* planner say yes to each of the human, future, DNC and troll closing
\* templates, and generate_reply_lt returns the empty reply for a history
\* whose last assistant message is one of them.
C18_templates_recognised ==
  /\ res.op = "close detectors" /\ arg.text \in CLOSE_TEMPLATES =>
       res.closes.main /\ res.closes.planner
  /\ res.op = "generate_reply_lt" /\ arg.text.s # <<>>
     /\ ~In("debug command", lower(arg.text))
     /\ _last_assistant_text(arg.history) \in CLOSE_TEMPLATES =>
       ~res.raised /\ res.text = NoText

\* the text is a "colleague will call" closing line
WillCallText(x) == In("perduosiu koleg", _norm(x)) /\ In("paskambins", _norm(x))

\* C19: for an inbound text whose first matching close rule is the call
\* request (no opt-out phrase in it), on a thread whose last assistant message
\* is not a closing line, generate_reply_lt returns a "colleague will call"
\* closing line.
C19_call_request_close ==
  res.op = "generate_reply_lt"
  /\ ~In("debug command", lower(arg.text))
  /\ ~_assistant_last_was_close(arg.history)
  /\ ~_is_hard_stop(arg.text)
  /\ _apply_close_rules(arg.text) = CALL_CLOSE
  => ~res.raised /\ WillCallText(res.text)

\* the priority that the claim gives to the close rules
CLAIMED_RANK == [dnc |-> 1, call |-> 2, troll |-> 3, accept |-> 4, future |-> 5]

\* the close rules that match the text
Hits(text) == {k \in 1..Len(CLOSE_RULES) : In(CLOSE_RULES[k].rx, raw(text))}

\* among them, the one that the claimed priority puts first
ClaimedRule(text) ==
  CHOOSE k \in Hits(text) :
     \A j \in Hits(text) :
        CLAIMED_RANK[CLOSE_RULES[k].name] <= CLAIMED_RANK[CLOSE_RULES[j].name]

\* C20: for an inbound text that matches close rules (opt-out, call request,
\* trolling, acceptance, future interest), on a thread that is not closed,
\* generate_reply_lt returns, without a call of the language model, the closing
\* message of the matching rule that comes first in the order opt-out, call
\* request, trolling, acceptance, future interest.
C20_close_rule_priority ==
  res.op = "generate_reply_lt"
  /\ ~In("debug command", lower(arg.text))
  /\ ~_assistant_last_was_close(arg.history)
  /\ Hits(arg.text) # {}
  /\ (\A k \in Hits(arg.text) : CLOSE_RULES[k].name \in DOMAIN CLAIMED_RANK)
  => /\ ~res.raised
     /\ res.text = _close_and_return(CLOSE_RULES[ClaimedRule(arg.text)].msg, arg.history,
                                     _extract_opener_specialty(arg.history))

\* a refusal as classify_thread_outcome reads it, with no word about the
\* future and no opt-out phrase
ClearDecline(text) ==
  /\ _is_no(text)
  /\ ~_is_maybe_future(text)
  /\ ~_user_future_yes(text)
  /\ ~_is_hard_stop(text)

\* the assistant has asked the future probe in the open thread of the phone
ProbeAskedIn(p) ==
  /\ OpenThread(World, p) # 0
  /\ _assistant_future_probe_asked(History(threads[OpenThread(World, p)].msgs))

\* C21: when an inbound handler starts on a refusal (no word about the
\* future) of a contact that is not DNC: if the probe has not been asked in
\* the thread, the handler sends the probe question and nothing else, leaves
\* every thread of the phone open and the dnc flag unset; if the probe has
\* been asked, what it sends is the DNC closing template.
C21_decline_handling ==
  [][\A p \in Phones :
       /\ InboundStep(p)
       /\ ClearDecline(lastOp'.text)
       /\ ~contacts[p].dnc
       /\ ~ClosedByTemplate(p)
       => IF ProbeAskedIn(p)
          THEN /\ lastOp'.sent # <<>>
               /\ \A j \in 1..Len(lastOp'.sent) : lastOp'.sent[j].body = DNC_CLOSE
          ELSE /\ Len(lastOp'.sent) = 1
               /\ lastOp'.sent[1].body = FUTURE_PROBE
               /\ ~contacts'[p].dnc
               /\ \A i \in 1..Len(threads') :
                     threads'[i].phone = p => threads'[i].status = "open"]_vars

\* the close type that the code's recogniser gives to a reply
CloseTypeOf(text) == _last_close_type(<<[role |-> "assistant", content |-> text]>>)

SHORT_YES == Text(<<"taip">>)

SHORT_NO == Text(<<"ne">>)

\* the analyzer has answered, and reads the text neither as a question nor as
\* a call request nor as trolling
AnalyzerReadsAnswer ==
  /\ arg.io.a_ok
  /\ arg.io.obj.intent \notin QUESTION_INTENTS \cup {"identity_question", "call_request"}
  /\ ~arg.io.obj.trolling

\* C22: when the last assistant message of the history is the future probe,
\* generate_reply_lt answers "taip" with the future closing template, never
\* with the human one, and answers "ne" with the DNC closing template.
C22_turn_local_disambiguation ==
  /\ res.op = "generate_reply_lt"
  /\ _last_assistant_question_type(arg.history) = "future_probe"
  /\ AnalyzerReadsAnswer
  => /\ arg.text = SHORT_YES =>
          ~res.raised /\ CloseTypeOf(res.text) = "future"
     /\ arg.text = SHORT_NO =>
          ~res.raised /\ CloseTypeOf(res.text) = "dnc"

\* the slot is known in this turn: some question of the history was answered
\* with it, or the current message states it, or the analyzer has read it in
\* the current message
SlotKnown(which) ==
  \/ SlotAnswered(arg.history, which)
  \/ IF which = "years"
     THEN \/ _parse_experience_years(arg.text) # -1
          \/ arg.io.a_ok /\ arg.io.obj.years # -1
     ELSE \/ _extract_availability(arg.text) # None
          \/ arg.io.a_ok /\ arg.io.obj.availability_text \notin {None, ""}
          \/ arg.io.a_ok /\ arg.io.obj.busy_until \notin {None, ""}

\* C23: when generate_reply_lt returns the human closing template, the years
\* of experience and the availability are both known, from the history or
\* from the current message.
C23_human_close_needs_slots ==
  res.op = "generate_reply_lt" /\ ~res.raised /\ CloseTypeOf(res.text) = "human" =>
    SlotKnown("years") /\ SlotKnown("availability")

\* C24: when an inbound handler has returned after handing an SMS to the
\* provider and no other handler is suspended, the last outbound message
\* stored in the latest thread of the phone is that SMS.
C24_replies_recorded ==
  InboundDone /\ lastOp.sent # <<>> /\ inflight = <<>> =>
    /\ _latest_thread(World, lastOp.phone) # 0
    /\ LastBody(threads[_latest_thread(World, lastOp.phone)].msgs, "out")
         = lastOp.sent[Len(lastOp.sent)].body

\* C25: for every closing message and every history, what _close_and_return
\* makes of the message (_polish, then _final_sms) has the close type of the
\* message and is detected as a close by _assistant_last_was_close.
C25_postprocessing_preserves_closes ==
  res.op = "_close_and_return" =>
    /\ CloseTypeOf(res.text) = CloseTypeOf(arg.msg)
    /\ _assistant_last_was_close(<<[role |-> "assistant", content |-> res.text]>>)

\* the last message that the assistant sent in the latest thread of the
\* phone is a troll close
TrollClosed(p) ==
  /\ _latest_thread(World, p) # 0
  /\ CloseTypeOf(LastBody(threads[_latest_thread(World, p)].msgs, "out")) = "troll"

\* the step hands a troll close for the phone to the provider
SendsTrollClose(p) ==
  \E j \in (Len(sms) + 1)..Len(sms') :
     sms'[j].to = p /\ CloseTypeOf(sms'[j].body) = "troll"

\* C26: a step that sends the troll close to a phone leaves the phone's dnc
\* flag as it is; and once the last assistant message of the phone's thread
\* is the troll close, an inbound message that is neither a refusal nor an
\* opt-out does not set the flag.
C26_troll_close_no_dnc ==
  [][\A p \in Phones :
       /\ SendsTrollClose(p) => contacts'[p].dnc = contacts[p].dnc
       /\ /\ TrollClosed(p)
          /\ InboundStep(p)
          /\ ~_is_no(lastOp'.text)
          /\ ~_is_hard_stop(lastOp'.text)
          => contacts'[p].dnc = contacts[p].dnc]_vars

\* C27: while the years of experience are not known (no answered years
\* question in the history, none in the current message, none read by the
\* analyzer), the reply of generate_reply_lt does not ask the availability
\* question, whatever the language model returns.
C27_years_before_availability ==
  res.op = "generate_reply_lt" /\ ~res.raised /\ ~SlotKnown("years") =>
    ~Asks(res.text, "availability")

\* the inbound text is a question about the job, as generate_reply_lt reads
\* it: by its wording, or by the intent that the analyzer returns
GenuineQuestion ==
  /\ arg.io.a_ok
  /\ ~arg.io.obj.trolling
  /\ ~In("robot", raw(arg.text))
  /\ _looks_like_question(arg.text) \/ arg.io.obj.intent \in QUESTION_INTENTS

\* the slot that the next qualifying question is about
NextMissingSlot == IF SlotKnown("years") THEN "availability" ELSE "years"

\* C28: for an inbound question, stored as the last message of a thread that
\* is not closed, when no close rule matches and a slot is missing, the reply
\* of generate_reply_lt has exactly one question, which asks for the next
\* missing slot, and is not a closing line (so the handler leaves the thread
\* open).
C28_question_handling ==
  /\ AsInTurn
  /\ ~In("debug command", lower(arg.text))
  /\ ~_assistant_last_was_close(arg.history)
  /\ Hits(arg.text) = {}
  /\ GenuineQuestion
  /\ ~(SlotKnown("years") /\ SlotKnown("availability"))
  => /\ ~res.raised
     /\ CountQ(res.text) = 1
     /\ Asks(res.text, NextMissingSlot)
     /\ ~_is_close_text(res.text)

\* C29: when the history holds the years question followed at once by a user
\* message in which _parse_experience_years finds a value, _inferred_slots
\* returns years; when it holds the availability question followed at once
\* by a message in which _extract_availability finds one, it returns an
\* availability; whatever else the history holds.
C29_slot_memory ==
  res.op = "_inferred_slots" =>
    /\ SlotAnswered(arg.history, "years") => res.slots.years # -1
    /\ SlotAnswered(arg.history, "availability") => res.slots.availability # None

\* the last assistant message of the history is a closing message
HistoryClosed(history) ==
  \/ _assistant_last_was_close(history)
  \/ _last_close_type(history) # None

\* C30: generate_reply_lt, given a non-empty inbound text as the last message
\* of a history whose last assistant message is not a closing message,
\* raises nothing and returns a non-empty reply; it returns the empty reply
\* only when the history is closed.
C30_never_stalls ==
  AsInTurn /\ arg.text.s # <<>> /\ ~HistoryClosed(arg.history) =>
    /\ ~res.raised
    /\ TextLen(res.text) > 0

\* two runs of the environment that differ in nothing but what the language
\* model answers: the analyzer's object, the generator's text, the KPI
\* analyzer's object
SameButModelOutputs(e1, e2) ==
  [e1 EXCEPT !.io.obj = NoObj, !.io.sms = NoText, !.k.obj = NoObj]
    = [e2 EXCEPT !.io.obj = NoObj, !.io.sms = NoText, !.k.obj = NoObj]

\* what a run of an inbound handler decides about closing: whether it is to
\* finalize the thread, the close type of what it sends, the dnc flags and
\* the thread statuses it leaves
CloseDecision(r) ==
  [closes   |-> \E i \in 1..Len(r.cont) : WillClose(r.cont[i]),
   type     |-> [i \in 1..Len(r.out) |-> CloseTypeOf(r.out[i].body)],
   dnc      |-> [p \in Phones |-> r.w.contacts[p].dnc],
   statuses |-> [i \in 1..Len(r.w.threads) |-> r.w.threads[i].status]]

\* C31: wherever the webhook can start, for every inbound text, two runs that
\* differ only in the language model's outputs agree on whether the thread
\* closes, on the close type of what is sent and on the dnc flags.
C31_closing_is_deterministic ==
  \A p \in Phones, text \in UserTexts, e1 \in Envs, e2 \in Envs :
     steps < MaxSteps /\ ~Locked /\ SameButModelOutputs(e1, e2) =>
       CloseDecision(mo(World, p, text, e1)) = CloseDecision(mo(World, p, text, e2))

\* the open thread of the phone with the newest id, 0 when there is none
NewestOpenThread(w, phone) ==
  IF OpenThreadsOf(w, phone) = {} THEN 0
  ELSE CHOOSE i \in OpenThreadsOf(w, phone) : \A j \in OpenThreadsOf(w, phone) : j <= i

\* the threads whose messages a run of a handler has added to
ThreadsWrittenBy(r) ==
  {i \in 1..Len(r.w.threads) :
     i > Len(threads) \/ r.w.threads[i].msgs # threads[i].msgs}

\* C32: wherever a phone has two open threads, a webhook turn of the phone
\* stores the inbound message in the open thread with the newest id and in no
\* other, and what it leaves to do after provider.send (storing the reply,
\* finalizing) is for that thread too.
C32_newest_thread_wins ==
  \A p \in Phones, text \in UserTexts, env \in Envs :
     Cardinality(OpenThreadsOf(World, p)) >= 2 /\ ~Locked =>
       LET r == mo(World, p, text, env)
       IN  /\ ThreadsWrittenBy(r) \subseteq {NewestOpenThread(World, p)}
           /\ \A i \in 1..Len(r.cont) : r.cont[i].t = NewestOpenThread(World, p)

\* where the value line stands in the outbound messages of a thread: the
\* message and the sentence
ValueLinesOf(msgs) ==
  {<<i, j>> \in (1..Len(msgs)) \X (1..4) :
     /\ msgs[i].dir = "out"
     /\ j <= Len(msgs[i].body.s)
     /\ <<"low", "VALUE_LINE">> \in Features(msgs[i].body, j)}

\* C33: the outbound messages of a thread hold the value line at most once.
C33_value_line_once ==
  \A t \in 1..Len(threads) : Cardinality(ValueLinesOf(threads[t].msgs)) <= 1

\* the outbound messages of a thread that ask the future-interest probe
ProbesOf(msgs) ==
  {i \in 1..Len(msgs) :
     /\ msgs[i].dir = "out"
     /\ _assistant_future_probe_asked(<<[role |-> "assistant", content |-> msgs[i].body]>>)}

\* C34: the outbound messages of a thread ask the future-interest probe at
\* most once.
C34_probe_once ==
  \A t \in 1..Len(threads) : Cardinality(ProbesOf(threads[t].msgs)) <= 1

\* C35: a reply that generate_reply_lt returns holds at most one question
\* mark.
C35_one_question_mark ==
  res.op = "generate_reply_lt" /\ ~res.raised => CountQ(res.text) <= 1

\* the generator's text held two question marks and reached _polish; the
\* reply keeps the first question only
C35_witness ==
  /\ res.op = "generate_reply_lt"
  /\ ~res.raised
  /\ ReachesGenerate(arg.history, arg.text, arg.io)
  /\ CountQ(arg.io.sms) = 2
  /\ res.text = Text(<<"Ar dirbate siuo metu?">>)

\* the step leaves what the database and the provider hold for the phone as
\* it is: the contact record with its dnc flag, the threads with their
\* messages, the SMS sent to it
LeavesAlone(b) ==
  /\ contacts'[b] = contacts[b]
  /\ \A i \in 1..Len(threads) : threads[i].phone = b => threads'[i] = threads[i]
  /\ \A i \in (Len(threads) + 1)..Len(threads') : threads'[i].phone # b
  /\ \A i \in (Len(sms) + 1)..Len(sms') : sms'[i].to # b

\* C36: a step of the webhook, of the poller or of /send for a phone, a run
\* from its start to provider.send or the rest after it, whatever other
\* handlers are suspended, leaves every other phone's contact record, dnc
\* flag, threads, messages and SMS unchanged.
C36_contacts_isolated ==
  [][\A b \in Phones :
       lastOp'.op \in Inbound \cup {"send"} /\ lastOp'.phone # b => LeavesAlone(b)]_vars

\* a turn of one phone has run to its end while the other phone has a thread
\* with a stored message and a handler suspended in provider.send
C36_witness ==
  /\ lastOp.op \in Inbound
  /\ lastOp.stage = "resumed"
  /\ \E b \in Phones, i \in 1..Len(threads), j \in 1..Len(inflight) :
        /\ b # lastOp.phone
        /\ threads[i].phone = b
        /\ threads[i].msgs # <<>>
        /\ inflight[j].phone = b

\* what a suspended handler has left to do, whichever handler it is
Rest(c) == [c EXCEPT !.op = "inbound"]

\* C37: wherever a handler can start, for every phone, inbound text and run of
\* the environment, the webhook and the poller send the same SMS, store the
\* same messages and leave the same dnc flags and thread statuses, up to
\* provider.send and after it.
C37_webhook_poller_equivalent ==
  /\ \A p \in Phones, text \in UserTexts, env \in Envs :
        steps < MaxSteps /\ ~Locked =>
          LET a == mo(World, p, text, env)
              b == _process_inbound_item(World, p, text, env)
          IN  /\ a.out = b.out
              /\ a.w.contacts = b.w.contacts
              /\ a.w.threads = b.w.threads
              /\ [i \in 1..Len(a.cont) |-> Rest(a.cont[i])]
                   = [i \in 1..Len(b.cont) |-> Rest(b.cont[i])]
  /\ \A i \in 1..Len(inflight), env \in Envs :
        inflight[i].op \in Inbound /\ ~Locked =>
          LET a == mo_resume(World, inflight[i], env)
              b == _process_inbound_item_resume(World, inflight[i], env)
          IN  a.contacts = b.contacts /\ a.threads = b.threads

\* the poller is between two rounds: the for loop is over and no item is
\* suspended
PollerAsleep ==
  /\ arg.kind = "_infobip_poller"
  /\ arg.items = <<>>
  /\ inflight = <<>>

\* C38: when a round of the poller is over, every item that fetch_inbound
\* has returned so far has been handed to _process_inbound_item, also when
\* an item of the batch failed.
C38_batch_survives_failure ==
  PollerAsleep => arg.pulled \subseteq arg.handled

\* the inbound text is the first user message of a thread that begins with an
\* assistant message, and it reads as a question or the analyzer calls it one
FirstReplyQuestion ==
  /\ AsInTurn
  /\ _is_first_user_reply_after_opener(arg.history)
  /\ \/ _looks_like_question(arg.text)
     \/ arg.io.a_ok /\ arg.io.obj.intent \in QUESTION_INTENTS

\* C39: on the first user reply after the opener, when the reply is or looks
\* like a question, generate_reply_lt raises nothing and returns a reply that
\* is no closing line and ends with the interest check.
C39_first_reply_guard ==
  FirstReplyQuestion /\ ~HistoryClosed(arg.history) =>
    /\ ~res.raised
    /\ ~_is_close_text(res.text)
    /\ CloseTypeOf(res.text) = None
    /\ res.text.s # <<>>
    /\ <<res.text.s[Len(res.text.s)]>> = INTEREST_Q
====
